---- MODULE Spec2Model ----
(***************************************************************************)
(* Model of containerregistry/client/v2_2/docker_http_.py: the registry   *)
(* Transport (ping, token exchange, authenticated request with one        *)
(* refresh-and-retry on 401), used from several threads.                  *)
(*                                                                         *)
(* Process 0 is the thread that runs Transport.__init__; two threads, 1   *)
(* and 2, call Transport.Request on the constructed object, at the same   *)
(* time or one call after the other, MaxCalls calls in all.  Every call   *)
(* of the underlying HTTP transport is two steps (the call is sent, the   *)
(* response arrives), so that other threads run while it is in flight.    *)
(* Strings that the code parses are sequences of characters.              *)
(*                                                                         *)
(* Spec is that system.  SpecPing is the construction alone, over more    *)
(* registry hosts and more answers to the ping.  SpecPages is one thread  *)
(* that consumes a PaginatedRequest of a constructed Transport, MaxPages  *)
(* pages at most; SpecPagesFair is that thread under weak fairness, with  *)
(* a consumer that never stops asking.  SpecArgs is one thread calling    *)
(* Request with every choice of method, body, content type and accepted   *)
(* mime types.  SpecPure applies the functions that need no Transport     *)
(* (the decoder of diagnostics, the diagnostic exception,                 *)
(* ParseNextLinkHeader) once to each argument of a set.                   *)
(* SpecFresh is two threads calling Request while the token service       *)
(* never hands out a token twice; SpecCallsFair is two threads calling    *)
(* Request under weak fairness of each thread; SpecRotate is the          *)
(* construction and one thread while the credential object's Basic value  *)
(* changes between calls, MaxRotations times at most.                     *)
(***************************************************************************)
EXTENDS Integers, Sequences, FiniteSets, TLC

\* ------------------------------------------------------------------ bounds
MaxCalls == 2
NTokens == 2
\* The pages a consumer asks a PaginatedRequest for.
MaxPages == 3

Threads == {1, 2}
Ctor == 0
Procs == {Ctor} \cup Threads
Tokens == 1..NTokens

\* --------------------------------------------------------------- constants
PULL == "pull"
PUSH == "push,pull"
DELETE == PUSH
CATALOG == "catalog"
\* ACTIONS in the source (a reserved word here).
Actions == <<PULL, PUSH, DELETE, CATALOG>>

OK == 200
UNAUTHORIZED == 401

\* 'Bearer ', 'realm=', 'service='
CHALLENGE == <<"B", "e", "a", "r", "e", "r", " ">>
REALM_PFX == <<"r", "e", "a", "l", "m", "=">>
SERVICE_PFX == <<"s", "e", "r", "v", "i", "c", "e", "=">>

\* 'localhost:', 'http', 'https'
LOCALHOST_PFX == <<"l", "o", "c", "a", "l", "h", "o", "s", "t", ":">>
HTTP == <<"h", "t", "t", "p">>
HTTPS == <<"h", "t", "t", "p", "s">>

\* An attribute of the Transport: never assigned (reading it raises
\* AttributeError), or bound to a value.
NoAttr == [set |-> FALSE, v |-> <<>>]
Attr(v) == [set |-> TRUE, v |-> v]
NoLock == -1

\* ------------------------------------------------------------ python str
StartsWith(s, p) == Len(s) >= Len(p) /\ SubSeq(s, 1, Len(p)) = p

\* s[n:]
Drop(s, n) == SubSeq(s, n + 1, Len(s))

\* Index of the first c in s at or after i, or 0.
RECURSIVE Find(_, _, _)
Find(s, c, i) ==
  IF i > Len(s) THEN 0
  ELSE IF s[i] = c THEN i
  ELSE Find(s, c, i + 1)

\* s.split(c): the pieces between the separators, empty pieces kept.
RECURSIVE Split(_, _)
Split(s, c) ==
  LET i == Find(s, c, 1) IN
  IF i = 0 THEN <<s>>
  ELSE <<SubSeq(s, 1, i - 1)>> \o Split(Drop(s, i), c)

RECURSIVE LStrip(_, _)
LStrip(s, c) == IF Len(s) > 0 /\ s[1] = c THEN LStrip(Tail(s), c) ELSE s

RECURSIVE RStrip(_, _)
RStrip(s, c) ==
  IF Len(s) > 0 /\ s[Len(s)] = c THEN RStrip(SubSeq(s, 1, Len(s) - 1), c) ELSE s

\* s.strip(c)
Strip(s, c) == RStrip(LStrip(s, c), c)

\* ------------------------------------------------------------- Diagnostic
\* What json.loads returns: None (null), a number, a string, a list, a dict;
\* NotJson stands for its ValueError. A response body is its text and what
\* json.loads makes of that text.
JNull == [t |-> "null"]
JNum(n) == [t |-> "num", n |-> n]
JStr(s) == [t |-> "str", s |-> s]
JList(items) == [t |-> "list", items |-> items]
\* A dict: its items, and its keys in the order in which Python iterates over
\* them. The language does not define the order: in python 2 it is the order
\* of the slots of the dict's hash table, which depends on the hash seed the
\* interpreter was started with.
JDict(keys, d) == [t |-> "dict", keys |-> keys, d |-> d]
NotJson == [t |-> "invalid"]
Body(raw, json) == [raw |-> raw, json |-> json]

\* Mutant: a missing key reads as the empty string.
Get_EmptyString(o, k) == IF k \in DOMAIN o.d THEN o.d[k] ELSE JStr(<<>>)

\* dict.get(k): the value, or None.
Get(o, k) == IF k \in DOMAIN o.d THEN o.d[k] ELSE JNull

\* 'for d in v': the values Python iterates over (the elements of a list, the
\* characters of a string, the keys of a dict in the dict's own order), or a
\* TypeError.
Iterable(v) == v.t \in {"list", "str", "dict"}
Iter(v) ==
  CASE v.t = "list" -> v.items
    [] v.t = "str" -> [i \in 1..Len(v.s) |-> JStr(<<v.s[i]>>)]
    [] v.t = "dict" ->
         [i \in 1..Len(v.keys) |-> [t |-> "str", key |-> v.keys[i]]]

\* Lines 60-79: a Diagnostic keeps the element; its properties read it with
\* .get, which only a dict has (AttributeError otherwise).
Diagnostic(error) == [error |-> error]
Readable(d) == d.error.t = "dict"
Code(d) == Get(d.error, "code")
Message(d) == Get(d.error, "message")
Detail(d) == Get(d.error, "detail")

\* 'UNKNOWN'
UNKNOWN == <<"U", "N", "K", "N", "O", "W", "N">>

\* Lines 87-90: the diagnostic made up for a body that cannot be decoded.
Unknown(content) ==
  <<Diagnostic(JDict(<<"message", "code">>, [code |-> JStr(UNKNOWN), message |-> JStr(content.raw)]))>>

\* Mutant: an object without an errors key counts as a body that cannot be
\* decoded.
DiagnosticsFromContent_MissingIsUnknown(content) ==
  LET o == content.json IN
  IF o.t # "dict" THEN Unknown(content)
  ELSE IF "errors" \notin DOMAIN o.d THEN Unknown(content)
  ELSE LET errors == o.d["errors"] IN
       IF ~Iterable(errors) THEN Unknown(content)
       ELSE [i \in 1..Len(Iter(errors)) |-> Diagnostic(Iter(errors)[i])]

\* Lines 82-90. The try block fails with ValueError (not JSON), with
\* AttributeError (the JSON is no dict) or with TypeError (errors cannot be
\* iterated over); the bare except catches them all.
DiagnosticsFromContent(content) ==
  LET o == content.json IN
  IF o.t # "dict" THEN Unknown(content)
  ELSE LET errors == IF "errors" \in DOMAIN o.d THEN o.d["errors"] ELSE JList(<<>>) IN
       IF ~Iterable(errors) THEN Unknown(content)
       ELSE [i \in 1..Len(Iter(errors)) |-> Diagnostic(Iter(errors)[i])]

\* Lines 96-104: the exception raised by 'raise V2DiagnosticException(resp,
\* content)': the message is the lines joined by '\n', the response first and
\* then '%s: %s' % (d.message, d.detail) for each diagnostic; reading
\* d.message of a Diagnostic that keeps no dict raises AttributeError out of
\* the constructor.
V2DiagnosticException(resp, content) ==
  LET diagnostics == DiagnosticsFromContent(content) IN
  IF \E i \in DOMAIN diagnostics : ~Readable(diagnostics[i])
    THEN [exc |-> "AttributeError", diagnostics |-> <<>>, message |-> <<>>]
    ELSE [exc |-> "V2DiagnosticException",
          diagnostics |-> diagnostics,
          message |-> <<[line |-> "response", status |-> resp.status,
                         message |-> JNull, detail |-> JNull]>>
                      \o [i \in DOMAIN diagnostics |->
                            [line |-> "diagnostic", status |-> 0,
                             message |-> Message(diagnostics[i]),
                             detail |-> Detail(diagnostics[i])]]]

\* --------------------------------------------------------------- Scheme
\* Mutant: https for every endpoint.
Scheme_AlwaysHttps(endpoint) == HTTPS

\* Lines 383-388
Scheme(endpoint) == IF StartsWith(endpoint, LOCALHOST_PFX) THEN HTTP ELSE HTTPS

\* -------------------------------------------------- ParseNextLinkHeader
\* rel="next"
REL_NEXT == <<"r", "e", "l", "=", "\"", "n", "e", "x", "t", "\"">>

\* Python's None, and a string value.
None == [none |-> TRUE, v |-> <<>>]
Str(s) == [none |-> FALSE, v |-> s]
\* The truth value of None or a string ('while next_page', 'if not link').
Truthy(x) == ~x.none /\ x.v # <<>>

\* \s of the pattern: space, tab, line feed, carriage return, form feed and
\* vertical tab (the last string of the set holds the character 0x0b).
IsSpace(c) == c \in {" ", "\t", "\n", "\r", "\f", ""}
\* The first position from k on that holds no whitespace (\s*).
RECURSIVE SkipSpaces(_, _)
SkipSpaces(s, k) ==
  IF k <= Len(s) /\ IsSpace(s[k]) THEN SkipSpaces(s, k + 1) ELSE k
\* s holds lit at position k.
MatchAt(s, k, lit) ==
  /\ k + Len(lit) - 1 <= Len(s)
  /\ SubSeq(s, k, k + Len(lit) - 1) = lit
\* The pattern .*<(.+)>;\s*rel="next".* matches s with '<' at i and '>' at j.
\* re.match starts at the first character, and '.' matches every character
\* but the line feed: none stands before '<' or inside the group.
Closes(s, i, j) ==
  /\ s[i] = "<"
  /\ j >= i + 2
  /\ j + 1 <= Len(s)
  /\ s[j] = ">"
  /\ s[j + 1] = ";"
  /\ \A k \in 1..(j - 1) : s[k] # "\n"
  /\ MatchAt(s, SkipSpaces(s, j + 2), REL_NEXT)
Max(S) == CHOOSE x \in S : \A y \in S : y <= x

\* Lines 368-380. link is resp.get('link'): None or the header's value. The
\* leading .* and the group are greedy: the last '<' that can match, and for
\* it the last '>' that can.
ParseNextLinkHeader(link) ==
  IF ~Truthy(link) THEN None
  ELSE LET s == link.v
           opens == {i \in 1..Len(s) : \E j \in 1..Len(s) : Closes(s, i, j)}
       IN IF opens = {} THEN None
          ELSE LET i == Max(opens)
                   j == Max({k \in 1..Len(s) : Closes(s, i, k)})
               IN Str(SubSeq(s, i + 1, j - 1))

\* ----------------------------------------------------------------- _Ping
\* Lines 198-199: the URL of the ping, '{scheme}://{registry}/v2/'.
PingUrl(reg) == Scheme(reg) \o <<":", "/", "/">> \o reg \o <<"/", "v", "2", "/">>

\* Mutant: the service defaults to the empty string.
DefaultService_Empty(reg) == Attr(<<>>)

\* Line 213: _service defaults to the registry.
DefaultService(reg) == Attr(reg)

\* The loop over the challenge's tokens (lines 215-220): acc is the pair of
\* attributes (_realm, _service) so far.
RECURSIVE ParseTokens(_, _)
ParseTokens(tokens, acc) ==
  IF tokens = <<>> THEN acc
  ELSE LET t == Head(tokens)
           nxt == IF StartsWith(t, REALM_PFX)
                    THEN [acc EXCEPT !.realm = Attr(Strip(Drop(t, Len(REALM_PFX)), "\""))]
                  ELSE IF StartsWith(t, SERVICE_PFX)
                    THEN [acc EXCEPT !.service = Attr(Strip(Drop(t, Len(SERVICE_PFX)), "\""))]
                  ELSE acc
       IN ParseTokens(Tail(tokens), nxt)


\* The body of _Ping after the response arrived (lines 204-224), as a function
\* of the response and of name.registry: the exception it raises ("none" when
\* it returns) and the attributes _realm and _service as it leaves them.
\* Mutant: any client error is taken for the challenge.
PingStatusOk_Any4xx(status) == status >= 400

\* Line 205
PingStatusOk(status) == status = UNAUTHORIZED

Ping(resp, reg) ==
  IF ~PingStatusOk(resp.status)
    THEN [exc |-> "BadStateException", realm |-> NoAttr, service |-> NoAttr]
  ELSE IF ~resp.hasChallenge
    THEN [exc |-> "KeyError", realm |-> NoAttr, service |-> NoAttr]
  ELSE IF ~StartsWith(resp.challenge, CHALLENGE)
    THEN [exc |-> "BadStateException", realm |-> NoAttr, service |-> NoAttr]
  ELSE LET tokens == Split(Drop(resp.challenge, Len(CHALLENGE)), ",")
           got == ParseTokens(tokens, [realm |-> NoAttr, service |-> DefaultService(reg)])
       IN [exc |-> IF ~got.realm.set THEN "AttributeError"
                   ELSE IF got.realm.v = <<>> THEN "BadStateException"
                   ELSE "none",
           realm |-> got.realm, service |-> got.service]

\* ------------------------------------------------------------ environment
\* Bearer realm="R",service="S"
ChBoth == <<"B", "e", "a", "r", "e", "r", " ", "r", "e", "a", "l", "m", "=", "\"", "R", "\"", ",", "s", "e", "r", "v", "i", "c", "e", "=", "\"", "S", "\"">>
\* Bearer service="S",realm="R"
ChSwapped == <<"B", "e", "a", "r", "e", "r", " ", "s", "e", "r", "v", "i", "c", "e", "=", "\"", "S", "\"", ",", "r", "e", "a", "l", "m", "=", "\"", "R", "\"">>
\* Bearer realm="R"
ChNoService == <<"B", "e", "a", "r", "e", "r", " ", "r", "e", "a", "l", "m", "=", "\"", "R", "\"">>
\* Bearer service="S"
ChNoRealm == <<"B", "e", "a", "r", "e", "r", " ", "s", "e", "r", "v", "i", "c", "e", "=", "\"", "S", "\"">>
\* Basic realm="R"
ChBasic == <<"B", "a", "s", "i", "c", " ", "r", "e", "a", "l", "m", "=", "\"", "R", "\"">>
\* Bearer realm="R", service="S"
ChSpace == <<"B", "e", "a", "r", "e", "r", " ", "r", "e", "a", "l", "m", "=", "\"", "R", "\"", ",", " ", "s", "e", "r", "v", "i", "c", "e", "=", "\"", "S", "\"">>
\* Bearer service="S", realm="R"
ChSwappedSpace == <<"B", "e", "a", "r", "e", "r", " ", "s", "e", "r", "v", "i", "c", "e", "=", "\"", "S", "\"", ",", " ", "r", "e", "a", "l", "m", "=", "\"", "R", "\"">>
\* Bearer realm="R" ,service="S"
ChSpaceBefore == <<"B", "e", "a", "r", "e", "r", " ", "r", "e", "a", "l", "m", "=", "\"", "R", "\"", " ", ",", "s", "e", "r", "v", "i", "c", "e", "=", "\"", "S", "\"">>
\* Bearer realm="R",service="S",scope="x"
ChExtra == <<"B", "e", "a", "r", "e", "r", " ", "r", "e", "a", "l", "m", "=", "\"", "R", "\"", ",", "s", "e", "r", "v", "i", "c", "e", "=", "\"", "S", "\"", ",", "s", "c", "o", "p", "e", "=", "\"", "x", "\"">>
\* Bearer  realm="R",service="S"
ChTwoSpaces == <<"B", "e", "a", "r", "e", "r", " ", " ", "r", "e", "a", "l", "m", "=", "\"", "R", "\"", ",", "s", "e", "r", "v", "i", "c", "e", "=", "\"", "S", "\"">>
\* Bearer realm=""
ChEmptyRealm == <<"B", "e", "a", "r", "e", "r", " ", "r", "e", "a", "l", "m", "=", "\"", "\"">>
\* Bearer realm=R,service=S
ChUnquoted == <<"B", "e", "a", "r", "e", "r", " ", "r", "e", "a", "l", "m", "=", "R", ",", "s", "e", "r", "v", "i", "c", "e", "=", "S">>
\* bearer realm="R"
ChLower == <<"b", "e", "a", "r", "e", "r", " ", "r", "e", "a", "l", "m", "=", "\"", "R", "\"">>
\* localhost:5000
LocalHost == <<"l", "o", "c", "a", "l", "h", "o", "s", "t", ":", "5", "0", "0", "0">>
\* gcr.io
RegistryHost == <<"g", "c", "r", ".", "i", "o">>


\* What the caller may pass as action, and what the registry may answer.
ActionInputs == {PULL, PUSH, "delete"}
PingStatuses == {UNAUTHORIZED, OK, 404}
Challenges == {ChBoth, ChSwapped, ChNoService, ChNoRealm, ChBasic, ChSpace}
\* The ping's answers, with a www-authenticate header out of cs or without one.
PingResponsesOf(cs) ==
  {[status |-> st, hasChallenge |-> TRUE, challenge |-> c] :
     st \in PingStatuses, c \in cs}
  \cup {[status |-> st, hasChallenge |-> FALSE, challenge |-> <<>>] :
     st \in PingStatuses}
\* The answers of the registry the threads then work with: one challenge for
\* each way _Ping can end.
PingResponses == PingResponsesOf({ChBoth, ChNoService, ChNoRealm, ChBasic})
\* The answers used to examine construction alone.
AllChallenges ==
  Challenges \cup {ChSwappedSpace, ChSpaceBefore, ChExtra, ChTwoSpaces,
                   ChEmptyRealm, ChUnquoted, ChLower}
AllPingResponses == PingResponsesOf(AllChallenges)
\* gcr.io, localhost:5000, localhost, LOCALHOST:5000, a.localhost:5000
Registries ==
  {RegistryHost, LocalHost,
   <<"l", "o", "c", "a", "l", "h", "o", "s", "t">>,
   <<"L", "O", "C", "A", "L", "H", "O", "S", "T", ":", "5", "0", "0", "0">>,
   <<"a", ".", "l", "o", "c", "a", "l", "h", "o", "s", "t", ":", "5", "0", "0", "0">>}
\* The URLs PaginatedRequest is given, and the link headers of the pages.
UrlA == <<"a">>
UrlB == <<"b">>
Urls == {Str(UrlA), Str(<<>>)}
\* <b>; rel="next"
LkNextB == <<"<", "b", ">", ";", " ", "r", "e", "l", "=", "\"", "n", "e", "x", "t", "\"">>
\* <a>; rel="next"
LkNextA == <<"<", "a", ">", ";", " ", "r", "e", "l", "=", "\"", "n", "e", "x", "t", "\"">>
\* <a>; rel="prev"
LkPrevA == <<"<", "a", ">", ";", " ", "r", "e", "l", "=", "\"", "p", "r", "e", "v", "\"">>
LinkHeaders == {None, Str(LkNextB), Str(LkNextA), Str(LkPrevA)}
\* Link headers of several entries '<url>; rel="relation"', joined by ', '.
MaxEntries == 2
\* The responses ParseNextLinkHeader is checked on: no link header, or the
\* header made of the entries (the empty header when there are none). The
\* whitespace after ';' (inner) and after ',' (outer) is a space, or the
\* line feed and space that a header folded there reaches the code with.
LinkResponses ==
  LET Relations == {<<"n", "e", "x", "t">>, <<"p", "r", "e", "v">>}
      LinkEntries == [url : {UrlA, UrlB}, rel : Relations]
      Spaces == {<<" ">>, <<"\n", " ">>}
      EntryText(e, inner) ==
        <<"<">> \o e.url \o <<">", ";">> \o inner
                \o <<"r", "e", "l", "=", "\"">> \o e.rel \o <<"\"">>
      RECURSIVE JoinEntries(_, _, _)
      JoinEntries(es, inner, outer) ==
        IF es = <<>> THEN <<>>
        ELSE IF Len(es) = 1 THEN EntryText(es[1], inner)
        ELSE EntryText(es[1], inner) \o <<",">> \o outer
               \o JoinEntries(Tail(es), inner, outer)
      EntryLists == UNION {[1..n -> LinkEntries] : n \in 0..MaxEntries}
  IN {[entries |-> <<>>, inner |-> <<" ">>, outer |-> <<" ">>, link |-> None]}
     \cup {[entries |-> es, inner |-> inner, outer |-> outer,
            link |-> Str(JoinEntries(es, inner, outer))] :
             es \in EntryLists, inner \in Spaces, outer \in Spaces}

\* Response bodies given to the decoder of diagnostics.
DiagBodies ==
  { \* oops
    Body(<<"o", "o", "p", "s">>,
         NotJson),
    \* (the empty body)
    Body(<<>>,
         NotJson),
    \* "x"
    Body(<<"\"", "x", "\"">>,
         JStr(<<"x">>)),
    \* []
    Body(<<"[", "]">>,
         JList(<<>>)),
    \* 7
    Body(<<"7">>,
         JNum(7)),
    \* null
    Body(<<"n", "u", "l", "l">>,
         JNull),
    \* {}
    Body(<<"{", "}">>,
         JDict(<<>>, <<>>)),
    \* {"message":"m"}
    Body(<<"{", "\"", "m", "e", "s", "s", "a", "g", "e", "\"", ":", "\"", "m", "\"", "}">>,
         JDict(<<"message">>, [message |-> JStr(<<"m">>)])),

    \* {"errors":[]}
    Body(<<"{", "\"", "e", "r", "r", "o", "r", "s", "\"", ":", "[", "]", "}">>,
         JDict(<<"errors">>, [errors |-> JList(<<>>)])),
    \* {"errors":[{"code":"X","message":"m","detail":"d"}]}
    Body(<<"{", "\"", "e", "r", "r", "o", "r", "s", "\"", ":", "[", "{", "\"", "c", "o", "d", "e", "\"", ":", "\"", "X", "\"", ",", "\"", "m", "e", "s", "s", "a", "g", "e", "\"", ":", "\"", "m", "\"", ",", "\"", "d", "e", "t", "a", "i", "l", "\"", ":", "\"", "d", "\"", "}", "]", "}">>,
         JDict(<<"errors">>, [errors |-> JList(<<JDict(<<"message", "code", "detail">>, [code |-> JStr(<<"X">>), message |-> JStr(<<"m">>), detail |-> JStr(<<"d">>)])>>)])),
    \* {"errors":[{"code":"X"},{"message":"m"}]}
    Body(<<"{", "\"", "e", "r", "r", "o", "r", "s", "\"", ":", "[", "{", "\"", "c", "o", "d", "e", "\"", ":", "\"", "X", "\"", "}", ",", "{", "\"", "m", "e", "s", "s", "a", "g", "e", "\"", ":", "\"", "m", "\"", "}", "]", "}">>,
         JDict(<<"errors">>, [errors |-> JList(<<JDict(<<"code">>, [code |-> JStr(<<"X">>)]), JDict(<<"message">>, [message |-> JStr(<<"m">>)])>>)])),
    \* {"errors":[{"code":"X","message":"m"},{"code":"Y","message":"n","detail":"d"}]}
    Body(<<"{", "\"", "e", "r", "r", "o", "r", "s", "\"", ":", "[", "{", "\"", "c", "o", "d", "e", "\"", ":", "\"", "X", "\"", ",", "\"", "m", "e", "s", "s", "a", "g", "e", "\"", ":", "\"", "m", "\"", "}", ",", "{", "\"", "c", "o", "d", "e", "\"", ":", "\"", "Y", "\"", ",", "\"", "m", "e", "s", "s", "a", "g", "e", "\"", ":", "\"", "n", "\"", ",", "\"", "d", "e", "t", "a", "i", "l", "\"", ":", "\"", "d", "\"", "}", "]", "}">>,
         JDict(<<"errors">>, [errors |-> JList(<<JDict(<<"message", "code">>, [code |-> JStr(<<"X">>), message |-> JStr(<<"m">>)]), JDict(<<"message", "code", "detail">>, [code |-> JStr(<<"Y">>), message |-> JStr(<<"n">>), detail |-> JStr(<<"d">>)])>>)])),
    \* {"errors":null}
    Body(<<"{", "\"", "e", "r", "r", "o", "r", "s", "\"", ":", "n", "u", "l", "l", "}">>,
         JDict(<<"errors">>, [errors |-> JNull])),
    \* {"errors":7}
    Body(<<"{", "\"", "e", "r", "r", "o", "r", "s", "\"", ":", "7", "}">>,
         JDict(<<"errors">>, [errors |-> JNum(7)])),
    \* {"errors":"ab"}
    Body(<<"{", "\"", "e", "r", "r", "o", "r", "s", "\"", ":", "\"", "a", "b", "\"", "}">>,
         JDict(<<"errors">>, [errors |-> JStr(<<"a", "b">>)])),
    \* {"errors":["x"]}
    Body(<<"{", "\"", "e", "r", "r", "o", "r", "s", "\"", ":", "[", "\"", "x", "\"", "]", "}">>,
         JDict(<<"errors">>, [errors |-> JList(<<JStr(<<"x">>)>>)])),
    \* {"errors":{"k":1}}
    Body(<<"{", "\"", "e", "r", "r", "o", "r", "s", "\"", ":", "{", "\"", "k", "\"", ":", "1", "}", "}">>,
         JDict(<<"errors">>, [errors |-> JDict(<<"k">>, [k |-> JNum(1)])])),
    \* {"errors":{"code":1,"message":1}}, in either order of the keys of errors
    \* (message, code without hash randomization; code, message with seed 1)
    Body(<<"{", "\"", "e", "r", "r", "o", "r", "s", "\"", ":", "{", "\"", "c", "o", "d", "e", "\"", ":", "1", ",", "\"", "m", "e", "s", "s", "a", "g", "e", "\"", ":", "1", "}", "}">>,
         JDict(<<"errors">>, [errors |-> JDict(<<"message", "code">>, [code |-> JNum(1), message |-> JNum(1)])])),
    Body(<<"{", "\"", "e", "r", "r", "o", "r", "s", "\"", ":", "{", "\"", "c", "o", "d", "e", "\"", ":", "1", ",", "\"", "m", "e", "s", "s", "a", "g", "e", "\"", ":", "1", "}", "}">>,
         JDict(<<"errors">>, [errors |-> JDict(<<"code", "message">>, [code |-> JNum(1), message |-> JNum(1)])])),
    \* {"errors":[{}]}
    Body(<<"{", "\"", "e", "r", "r", "o", "r", "s", "\"", ":", "[", "{", "}", "]", "}">>,
         JDict(<<"errors">>, [errors |-> JList(<<JDict(<<>>, <<>>)>>)])),
    \* {"errors":[null]}
    Body(<<"{", "\"", "e", "r", "r", "o", "r", "s", "\"", ":", "[", "n", "u", "l", "l", "]", "}">>,
         JDict(<<"errors">>, [errors |-> JList(<<JNull>>)])) }

\* Token exchange answers: the status, and what json.loads makes of the body:
\* an object, an array or a string ("array": 'token' in it is a test for an
\* element or a substring, and it cannot be indexed by 'token'), a number,
\* true, false or null ("scalar": 'token' in it raises TypeError), or no JSON;
\* hasToken is the value of 'token' in wrapper_object.
ExchangeResponses ==
  {[status |-> OK, body |-> "object", hasToken |-> TRUE, token |-> k] : k \in Tokens}
  \cup {[status |-> OK, body |-> "object", hasToken |-> FALSE, token |-> 0],
        [status |-> OK, body |-> "array", hasToken |-> FALSE, token |-> 0],
        [status |-> OK, body |-> "array", hasToken |-> TRUE, token |-> 0],
        [status |-> OK, body |-> "scalar", hasToken |-> FALSE, token |-> 0],
        [status |-> OK, body |-> "not_json", hasToken |-> FALSE, token |-> 0],
        [status |-> 403, body |-> "object", hasToken |-> FALSE, token |-> 0]}
Statuses == {OK, UNAUTHORIZED, 404}
\* The bodies answered to a Request, and the text each stands for: body1 is a
\* well-formed diagnostic, body2 has an errors array whose element is no
\* object (reading its message raises AttributeError, lines 69-75).
Bodies == {"body1", "body2"}
BodyText(content) ==
  IF content = "body1"
    THEN \* {"errors":[{"code":"X","message":"m","detail":"d"}]}
         Body(<<"{", "\"", "e", "r", "r", "o", "r", "s", "\"", ":", "[", "{", "\"", "c", "o", "d", "e", "\"", ":", "\"", "X", "\"", ",", "\"", "m", "e", "s", "s", "a", "g", "e", "\"", ":", "\"", "m", "\"", ",", "\"", "d", "e", "t", "a", "i", "l", "\"", ":", "\"", "d", "\"", "}", "]", "}">>,
              JDict(<<"errors">>, [errors |-> JList(<<JDict(<<"message", "code", "detail">>, [code |-> JStr(<<"X">>), message |-> JStr(<<"m">>), detail |-> JStr(<<"d">>)])>>)]))
    ELSE \* {"errors":["x"]}
         Body(<<"{", "\"", "e", "r", "r", "o", "r", "s", "\"", ":", "[", "\"", "x", "\"", "]", "}">>,
              JDict(<<"errors">>, [errors |-> JList(<<JStr(<<"x">>)>>)]))
AcceptedSets == {{OK}, {OK, UNAUTHORIZED}}
\* The optional arguments of Request: method, body and content_type are None,
\* empty or a string; accepted_mimes is None or a list.
AllArgs ==
  [method : {None, Str(<<>>), Str(<<"G", "E", "T">>), Str(<<"P", "O", "S", "T">>),
             Str(<<"P", "U", "T">>)},
   body : {None, Str(<<>>), Str(<<"d">>)},
   content_type : {None, Str(<<>>), Str(<<"t">>)},
   accepted_mimes : {None, Str(<<<<"m">>, <<"n">>>>)}]

\* -------------------------------------------------------------------- state
VARIABLES
  action,        \* __init__'s action argument
  registry,      \* name.registry
  pingStatus,    \* history: the status of the ping's response (0: none yet)
  pc,            \* where each process is
  realm,         \* self._realm
  service,       \* self._service
  bearer_creds,  \* self._bearer_creds
  lock,          \* self._lock: the process holding it, or NoLock
  wrapper,       \* _Refresh's local wrapper_object, per process
  call,          \* the locals of each thread's current Request call
  result,        \* how __init__ (process 0) or the last Request ended
  sent,          \* history: the calls made to the HTTP transport, per kind
  first,         \* history: the kinds of HTTP call, in the order of their first call
  ncalls,        \* history: the Request calls started
  issued,        \* history: the tokens handed out by successful exchanges
  pingHeader,    \* history: the www-authenticate header of the ping's response
  wire,          \* history: the ping and the token exchanges as they were sent
  pager,         \* the PaginatedRequest generator of each thread
  pure,          \* a function of the module applied by itself: argument, result
  basic_creds    \* what self._basic_creds.Get() returns at present

vars == <<action, registry, pingStatus, pc, realm, service, bearer_creds, lock, wrapper,
          call, result, sent, first, ncalls, issued, pingHeader, wire, pager,
          pure, basic_creds>>

\* v2_2_creds.Bearer(token)
Bearer(tok) == [scheme |-> "Bearer", token |-> tok]
NoCreds == [scheme |-> "<unset>", token |-> 0]

\* The Authorization header of a message: none, or the Basic credential's
\* value (self._basic_creds.Get()); a Bearer credential is Bearer(token).
NoAuth == [scheme |-> "<none>", token |-> 0]
\* What self._basic_creds.Get() returns when the Transport is constructed.
BasicAuth == [scheme |-> "Basic", token |-> 0]

\* self._name.scope(self._action): the scope of the bound name for the action.
Scope(a) == a

\* The ping (lines 193-202) and the token exchange (lines 241-255) as handed
\* to the HTTP transport.
NoHeader == [has |-> FALSE, value |-> <<>>]
PingMessage(reg) ==
  [kind |-> "ping", method |-> "GET", body |-> None, url |-> PingUrl(reg),
   scope |-> "none", service |-> <<>>, auth |-> NoAuth]
ExchangeMessage ==
  [kind |-> "exchange", method |-> "GET", body |-> None, url |-> realm.v,
   scope |-> Scope(action), service |-> service.v, auth |-> basic_creds]

\* No function is applied by itself.
NoPure == [op |-> "none", done |-> FALSE, arg |-> <<>>, res |-> <<>>]

\* PaginatedRequest has not been called.
\* Otherwise: the url and accepted_codes arguments, the locals next_page and
\* resp (its link header), and, as history, the pages yielded and the number
\* of times the consumer asked for the next element.
NoPager ==
  [state |-> "none", url |-> None, accepted |-> {}, next_page |-> None,
   link |-> None, yielded |-> <<>>, asked |-> 0]

\* No _Refresh is running: there is no local wrapper_object.
NoWrapper == [body |-> "none", token |-> 0]

NoResult == [kind |-> "none", exc |-> "none", status |-> 0, content |-> "none"]
Returned(status, content) ==
  [kind |-> "return", exc |-> "none", status |-> status, content |-> content]
Raised(exc, status, content) ==
  [kind |-> "raise", exc |-> exc, status |-> status, content |-> content]

\* Lines 273-277: the defaults of Request's optional arguments.
DefaultArgs ==
  [method |-> None, body |-> None, content_type |-> None, accepted_mimes |-> None]

\* The locals of a Request call: its arguments, the method of lines 298-299,
\* the loop's retry, the last response's content; and, as history, the call's
\* steps in order ("request": an attempt is sent, "refresh": _Refresh is
\* called), the credential each attempt carried, what each attempt handed to
\* the HTTP transport, the status each attempt got and the token the call's
\* _Refresh obtained (0: none).
NoCall ==
  [url |-> None, accepted |-> {}, args |-> DefaultArgs, method |-> <<>>,
   retry |-> TRUE, content |-> "none", link |-> None, trace |-> <<>>,
   statuses |-> <<>>, auths |-> <<>>, attempts |-> <<>>, obtained |-> 0]

\* The HTTP transport is called: the history records the kind of call.
Kinds == {"ping", "exchange", "request"}
Has(s, x) == \E i \in DOMAIN s : s[i] = x
\* The counts stop at SentCap, which the calls counted by MaxCalls and
\* MaxPages do not reach.
SentCap == 2 * (MaxCalls + MaxPages)
Transmit(kind) ==
  /\ sent' = [sent EXCEPT ![kind] = IF @ < SentCap THEN @ + 1 ELSE @]
  /\ first' = IF Has(first, kind) THEN first ELSE Append(first, kind)
NoTransmit == UNCHANGED <<sent, first>>

Init ==
  /\ action \in ActionInputs
  /\ registry = RegistryHost
  /\ pingStatus = 0
  /\ pc = [p \in Procs |-> IF p = Ctor THEN "new" ELSE "idle"]
  /\ realm = NoAttr
  /\ service = NoAttr
  /\ bearer_creds = NoCreds
  /\ lock = NoLock
  /\ wrapper = [p \in Procs |-> NoWrapper]
  /\ call = [t \in Threads |-> NoCall]
  /\ result = [p \in Procs |-> NoResult]
  /\ sent = [k \in Kinds |-> 0]
  /\ first = <<>>
  /\ ncalls = 0
  /\ issued = {}
  /\ pingHeader = NoHeader
  /\ wire = {}
  /\ pager = [t \in Threads |-> NoPager]
  /\ pure = NoPure
  /\ basic_creds = BasicAuth

\* An exception leaves the running call: __init__ fails, or Request raises.
Raise(p, exc, status, content) ==
  /\ pc' = [pc EXCEPT ![p] = IF p = Ctor THEN "failed" ELSE "done"]
  /\ result' = [result EXCEPT ![p] = Raised(exc, status, content)]

\* ---------------------------------------------------------------- __init__
\* Mutant: the action is not checked.
ActionValid_Any(a) == TRUE

\* Line 176: action in ACTIONS
ActionValid(a) == \E i \in DOMAIN Actions : Actions[i] = a

\* Mutant: __init__ does not refresh eagerly.
CtorAfterPing_NoRefresh == "constructed"

\* Lines 181-182: what __init__ does once _Ping returned: it calls _Refresh.
CtorAfterPing == "rf_send"

\* Lines 170-177: the attributes, the lock and the check of the action.
CtorStart ==
  /\ pc[Ctor] = "new"
  /\ IF ActionValid(action)
       THEN /\ pc' = [pc EXCEPT ![Ctor] = "ping_send"]
            /\ UNCHANGED result
       ELSE Raise(Ctor, "BadStateException", 0, "none")
  /\ UNCHANGED <<basic_creds, pure, pingHeader, wire, pager, action, registry, pingStatus, realm, service, bearer_creds,
                 lock, wrapper,
                 call, sent, first, ncalls, issued>>

\* Lines 193-202: the ping is handed to the HTTP transport.
PingSend ==
  /\ pc[Ctor] = "ping_send"
  /\ Transmit("ping")
  /\ wire' = wire \cup {PingMessage(registry)}
  /\ pc' = [pc EXCEPT ![Ctor] = "ping_wait"]
  /\ UNCHANGED <<basic_creds, pure, pingHeader, pager, action, registry, pingStatus, realm, service, bearer_creds,
                 lock, wrapper,
                 call, result, ncalls, issued>>

\* Lines 204-224: the response, one of resps, arrives and is parsed.
PingRecvFrom(resps) ==
  /\ pc[Ctor] = "ping_wait"
  /\ \E resp \in resps :
       LET r == Ping(resp, registry) IN
       /\ pingStatus' = resp.status
       /\ pingHeader' = [has |-> resp.hasChallenge, value |-> resp.challenge]
       /\ realm' = r.realm
       /\ service' = r.service
       /\ IF r.exc = "none"
            THEN /\ pc' = [pc EXCEPT ![Ctor] = CtorAfterPing]
                 /\ UNCHANGED result
            ELSE Raise(Ctor, r.exc, resp.status, "none")
  /\ UNCHANGED <<action, registry, bearer_creds, lock, wrapper, call, sent,
                 first, ncalls, issued, wire, pager, pure, basic_creds>>

PingRecv == PingRecvFrom(PingResponses)
PingRecvAny == PingRecvFrom(AllPingResponses)

\* ---------------------------------------------------------------- _Refresh
\* The process that called _Refresh goes on: __init__ returns the constructed
\* Transport; Request's loop goes to its second iteration (retry = False).
RefreshReturn(p) ==
  IF p = Ctor
    THEN /\ pc' = [pc EXCEPT ![p] = "constructed"]
         /\ result' = [result EXCEPT ![p] = Returned(0, "none")]
         /\ UNCHANGED call
    ELSE /\ pc' = [pc EXCEPT ![p] = "send"]
         /\ call' = [call EXCEPT ![p].retry = FALSE, ![p].obtained = wrapper[p].token]
         /\ UNCHANGED result

\* Mutant: _Refresh pings again before the exchange.
RefreshSend_Repings(p) ==
  /\ pc[p] = "rf_send"
  /\ sent' = [sent EXCEPT !["ping"] = @ + 1, !["exchange"] = @ + 1]
  /\ first' = IF Has(first, "exchange") THEN first ELSE Append(first, "exchange")
  /\ call' = [t \in Threads |->
                IF t = p THEN [call[t] EXCEPT !.trace = Append(@, "exchange")]
                ELSE call[t]]
  /\ wire' = wire \cup {ExchangeMessage}
  /\ pc' = [pc EXCEPT ![p] = "rf_wait"]
  /\ UNCHANGED <<basic_creds, pure, pingHeader, pager, action, registry, pingStatus, realm, service, bearer_creds,
                 lock, wrapper, result, ncalls, issued>>

\* Mutant: _Refresh takes the lock before the exchange.
RefreshSend_Locked(p) ==
  /\ pc[p] = "rf_send"
  /\ lock = NoLock
  /\ lock' = p
  /\ Transmit("exchange")
  /\ call' = [t \in Threads |->
                IF t = p THEN [call[t] EXCEPT !.trace = Append(@, "exchange")]
                ELSE call[t]]
  /\ wire' = wire \cup {ExchangeMessage}
  /\ pc' = [pc EXCEPT ![p] = "rf_wait"]
  /\ UNCHANGED <<basic_creds, pure, pingHeader, pager, action, registry, pingStatus, realm, service, bearer_creds,
                 wrapper, result, ncalls, issued>>

\* Mutant: a _Refresh that finds another one under way makes no exchange of
\* its own and returns.
RefreshSend_Coalesced(p) ==
  /\ pc[p] = "rf_send"
  /\ IF \E q \in Procs \ {p} : pc[q] \in {"rf_wait", "rf_lock", "rf_write", "rf_unlock"}
       THEN /\ RefreshReturn(p)
            /\ NoTransmit
            /\ UNCHANGED wire
       ELSE /\ Transmit("exchange")
            /\ wire' = wire \cup {ExchangeMessage}
            /\ call' = [t \in Threads |->
                          IF t = p THEN [call[t] EXCEPT !.trace = Append(@, "exchange")]
                          ELSE call[t]]
            /\ pc' = [pc EXCEPT ![p] = "rf_wait"]
            /\ UNCHANGED result
  /\ UNCHANGED <<basic_creds, pure, pingHeader, pager, action, registry, pingStatus, realm, service, bearer_creds,
                 lock, wrapper, ncalls, issued>>

\* Mutant: the exchange carries the Basic value read at construction.
RefreshSend_CachedBasic(p) ==
  /\ pc[p] = "rf_send"
  /\ IF realm.set /\ service.set
       THEN /\ Transmit("exchange")
            /\ wire' = wire \cup {[ExchangeMessage EXCEPT !.auth = BasicAuth]}
            /\ call' = [t \in Threads |->
                          IF t = p THEN [call[t] EXCEPT !.trace = Append(@, "exchange")]
                          ELSE call[t]]
            /\ pc' = [pc EXCEPT ![p] = "rf_wait"]
            /\ UNCHANGED result
       ELSE /\ Raise(p, "AttributeError", 0, "none")
            /\ NoTransmit
            /\ UNCHANGED <<call, wire>>
  /\ UNCHANGED <<basic_creds, pure, pingHeader, pager, action, registry, pingStatus, realm, service, bearer_creds,
                 lock, wrapper, ncalls, issued>>

\* Lines 241-255: the exchange is handed to the HTTP transport, with the
\* Basic credential, to the realm and for the service set by _Ping.
RefreshSend(p) ==
  /\ pc[p] = "rf_send"
  /\ IF realm.set /\ service.set
       THEN /\ Transmit("exchange")
            /\ wire' = wire \cup {ExchangeMessage}
            /\ call' = [t \in Threads |->
                          IF t = p THEN [call[t] EXCEPT !.trace = Append(@, "exchange")]
                          ELSE call[t]]
            /\ pc' = [pc EXCEPT ![p] = "rf_wait"]
            /\ UNCHANGED result
       ELSE /\ Raise(p, "AttributeError", 0, "none")
            /\ NoTransmit
            /\ UNCHANGED <<call, wire>>
  /\ UNCHANGED <<basic_creds, pure, pingHeader, pager, action, registry, pingStatus, realm, service, bearer_creds,
                 lock, wrapper, ncalls, issued>>

\* Lines 257-263: the checks of the exchange's response: the exception raised
\* ("none" when the token is read).
RefreshCheck(resp) ==
  IF resp.status # OK THEN "BadStateException"
  ELSE IF resp.body = "not_json" THEN "ValueError"
  ELSE IF resp.body = "scalar" THEN "TypeError"
  ELSE IF ~resp.hasToken THEN "BadStateException"
  ELSE "none"

\* Mutant: a failed exchange drops the current credential.
RefreshRecv_ClearsOnFailure(p) ==
  /\ pc[p] = "rf_wait"
  /\ \E resp \in ExchangeResponses :
       IF RefreshCheck(resp) = "none"
         THEN /\ wrapper' = [wrapper EXCEPT ![p] = [body |-> resp.body, token |-> resp.token]]
              /\ issued' = IF resp.body = "object" THEN issued \cup {resp.token} ELSE issued
              /\ pc' = [pc EXCEPT ![p] = "rf_lock"]
              /\ UNCHANGED <<result, bearer_creds>>
         ELSE /\ Raise(p, RefreshCheck(resp), resp.status, "none")
              /\ bearer_creds' = NoCreds
              /\ UNCHANGED <<wrapper, issued>>
  /\ UNCHANGED <<basic_creds, pure, pingHeader, wire, pager, action, registry, pingStatus, realm, service, lock, call,
                 sent, first, ncalls>>

\* Lines 250-263: the exchange's response, one of resps, arrives and is
\* checked; the decoded body is kept in the local wrapper_object.
RefreshRecvFrom(p, resps) ==
  /\ pc[p] = "rf_wait"
  /\ \E resp \in resps :
       IF RefreshCheck(resp) = "none"
         THEN /\ wrapper' = [wrapper EXCEPT ![p] = [body |-> resp.body, token |-> resp.token]]
              /\ issued' = IF resp.body = "object" THEN issued \cup {resp.token} ELSE issued
              /\ pc' = [pc EXCEPT ![p] = "rf_lock"]
              /\ UNCHANGED result
         ELSE /\ Raise(p, RefreshCheck(resp), resp.status, "none")
              /\ UNCHANGED <<wrapper, issued>>
  /\ UNCHANGED <<basic_creds, pure, pingHeader, wire, pager, action, registry, pingStatus, realm, service, bearer_creds, lock, call,
                 sent, first, ncalls>>

RefreshRecv(p) == RefreshRecvFrom(p, ExchangeResponses)

\* A token service that never hands out a token twice: the exchange fails, or
\* returns a token that no exchange has returned before.
RefreshRecvFresh(p) ==
  RefreshRecvFrom(p,
    {r \in ExchangeResponses : r.body # "object" \/ ~r.hasToken}
    \cup {[status |-> OK, body |-> "object", hasToken |-> TRUE,
           token |-> Max(issued) + 1]})

\* Mutant: the old credential is dropped when the lock is taken.
RefreshAcquire_Clears(p) ==
  /\ pc[p] = "rf_lock"
  /\ lock = NoLock
  /\ lock' = p
  /\ bearer_creds' = NoCreds
  /\ pc' = [pc EXCEPT ![p] = "rf_write"]
  /\ UNCHANGED <<basic_creds, pure, pingHeader, wire, pager, action, registry, pingStatus, realm, service, wrapper, call,
                 result, sent, first, ncalls, issued>>

\* Line 265: with self._lock (entry).
RefreshAcquire(p) ==
  /\ pc[p] = "rf_lock"
  /\ lock = NoLock
  /\ lock' = p
  /\ pc' = [pc EXCEPT ![p] = "rf_write"]
  /\ UNCHANGED <<basic_creds, pure, pingHeader, wire, pager, action, registry, pingStatus, realm, service, bearer_creds, wrapper, call,
                 result, sent, first, ncalls, issued>>

\* Mutant: the new credential is built and dropped; the attribute keeps the
\* old one.
RefreshWrite_KeepsOld(p) ==
  /\ pc[p] = "rf_write"
  /\ pc' = [pc EXCEPT ![p] = "rf_unlock"]
  /\ UNCHANGED <<basic_creds, pure, pingHeader, wire, pager, action, registry, pingStatus, realm,
                 service, bearer_creds, lock, wrapper, call, result, sent,
                 first, ncalls, issued>>

\* Line 267: wrapper_object['token'] is read and the attribute is bound to
\* the new credential (one store). An array or a string cannot be indexed by
\* 'token': TypeError is raised, nothing is stored, and the with statement
\* releases the lock as the exception leaves _Refresh and its caller.
RefreshWrite(p) ==
  /\ pc[p] = "rf_write"
  /\ IF wrapper[p].body = "object"
       THEN /\ bearer_creds' = Bearer(wrapper[p].token)
            /\ pc' = [pc EXCEPT ![p] = "rf_unlock"]
            /\ UNCHANGED <<lock, wrapper, result>>
       ELSE /\ Raise(p, "TypeError", OK, "none")
            /\ lock' = NoLock
            /\ wrapper' = [wrapper EXCEPT ![p] = NoWrapper]
            /\ UNCHANGED bearer_creds
  /\ UNCHANGED <<basic_creds, pure, pingHeader, wire, pager, action, registry, pingStatus, realm, service, call,
                 sent, first, ncalls, issued>>

\* Mutant: the lock is not released when _Refresh returns.
RefreshRelease_KeepsLock(p) ==
  /\ pc[p] = "rf_unlock"
  /\ wrapper' = [wrapper EXCEPT ![p] = NoWrapper]
  /\ RefreshReturn(p)
  /\ UNCHANGED <<basic_creds, pure, pingHeader, wire, pager, action, registry, pingStatus, realm, service, bearer_creds, sent, first,
                 ncalls, issued, lock>>

\* Line 265: with self._lock (exit), and the return to the caller.
RefreshRelease(p) ==
  /\ pc[p] = "rf_unlock"
  /\ lock' = NoLock
  /\ wrapper' = [wrapper EXCEPT ![p] = NoWrapper]
  /\ RefreshReturn(p)
  /\ UNCHANGED <<basic_creds, pure, pingHeader, wire, pager, action, registry, pingStatus, realm, service, bearer_creds, sent, first,
                 ncalls, issued>>

\* ----------------------------------------------------------------- Request
\* Mutant: every 401 is answered by a refresh and one more attempt.
AfterAttempt_AlwaysRefresh(status, retry) ==
  IF status # UNAUTHORIZED THEN "break" ELSE "refresh"

\* Mutant: the first attempt is always followed by a refresh and a retry.
AfterAttempt_RefreshFirst(status, retry) ==
  IF retry THEN "refresh" ELSE "exit"

\* Mutant: every status but 200 is answered by a refresh and one more attempt.
AfterAttempt_RetryAnyError(status, retry) ==
  IF status = OK THEN "break"
  ELSE IF retry THEN "refresh"
  ELSE "exit"

\* Lines 325-329, after an attempt's response: "break" leaves the loop,
\* "refresh" calls _Refresh and goes round again, "exit" is the loop's end.
AfterAttempt(status, retry) ==
  IF status # UNAUTHORIZED THEN "break"
  ELSE IF retry THEN "refresh"
  ELSE "exit"

\* Mutant: accepted_codes is ignored.
Accepted_OnlyOK(status, codes) == status = OK

\* Line 331
Accepted(status, codes) == status \in codes

\* Lines 331-335: 'raise V2DiagnosticException(resp, content)' raises the
\* exception its constructor builds, or the AttributeError that leaves the
\* constructor.
Outcome(status, content, codes) ==
  IF ~Accepted(status, codes)
    THEN Raised(V2DiagnosticException([status |-> status], BodyText(content)).exc,
                status, content)
    ELSE Returned(status, content)

\* 'GET', 'PUT', 'POST', 'application/json', docker_name.USER_AGENT
GET == <<"G", "E", "T">>
PUT == <<"P", "U", "T">>
POST == <<"P", "O", "S", "T">>
APPLICATION_JSON == <<"a", "p", "p", "l", "i", "c", "a", "t", "i", "o", "n", "/", "j", "s", "o", "n">>
USER_AGENT == "docker_name.USER_AGENT"

\* Lines 298-299
EffectiveMethod(method, body) ==
  IF ~Truthy(method) THEN (IF ~Truthy(body) THEN GET ELSE PUT) ELSE method.v

\* ','.join(mimes)
RECURSIVE JoinComma(_)
JoinComma(mimes) ==
  IF mimes = <<>> THEN <<>>
  ELSE IF Len(mimes) = 1 THEN mimes[1]
  ELSE mimes[1] \o <<",">> \o JoinComma(Tail(mimes))

\* Mutant: content-length is set whenever there is no body.
Headers_LengthWithoutBody(creds, method, body, content_type, accepted_mimes) ==
  [Authorization |-> creds,
   user_agent |-> USER_AGENT,
   content_type |-> IF Truthy(body)
                      THEN (IF Truthy(content_type) THEN content_type
                                                    ELSE Str(APPLICATION_JSON))
                      ELSE None,
   Accept |-> IF ~accepted_mimes.none THEN Str(JoinComma(accepted_mimes.v)) ELSE None,
   content_length |-> IF ~Truthy(body) THEN Str(<<"0">>) ELSE None]

\* Lines 306-320: the headers of an attempt, None for a header that is not
\* set. accepted_mimes is None or a list of strings.
Headers(creds, method, body, content_type, accepted_mimes) ==
  [Authorization |-> creds,
   user_agent |-> USER_AGENT,
   content_type |-> IF Truthy(body)
                      THEN (IF Truthy(content_type) THEN content_type
                                                    ELSE Str(APPLICATION_JSON))
                      ELSE None,
   Accept |-> IF ~accepted_mimes.none THEN Str(JoinComma(accepted_mimes.v)) ELSE None,
   content_length |-> IF method \in {POST, PUT} /\ ~Truthy(body)
                        THEN Str(<<"0">>) ELSE None]

\* Lines 322-323: what an attempt hands to the HTTP transport.
Attempt(c) ==
  [url |-> c.url, method |-> c.method, body |-> c.args.body,
   headers |-> Headers(bearer_creds, c.method, c.args.body,
                       c.args.content_type, c.args.accepted_mimes)]

\* Lines 270-299: the locals of a Request call as its loop begins.
StartCall(url, codes, args) ==
  [NoCall EXCEPT !.url = url, !.accepted = codes, !.args = args,
                 !.method = EffectiveMethod(args.method, args.body)]

\* A thread calls Request on the constructed Transport, with optional
\* arguments out of argsets.
RequestStartWith(t, argsets) ==
  /\ pc[Ctor] = "constructed"
  /\ pc[t] \in {"idle", "done"}
  /\ ncalls < MaxCalls
  /\ ncalls' = ncalls + 1
  /\ \E codes \in AcceptedSets, args \in argsets :
       call' = [call EXCEPT ![t] = StartCall(None, codes, args)]
  /\ result' = [result EXCEPT ![t] = NoResult]
  /\ pc' = [pc EXCEPT ![t] = "send"]
  /\ UNCHANGED <<basic_creds, pure, pingHeader, wire, pager, action, registry, pingStatus, realm, service, bearer_creds,
                 lock, wrapper,
                 sent, first, issued>>

\* A thread calls Request with a URL and accepted codes only.
RequestStart(t) == RequestStartWith(t, {DefaultArgs})

\* Mutant: the headers are built once, before the loop, and reused.
RequestSend_Hoisted(t) ==
  /\ pc[t] = "send"
  /\ call' = [call EXCEPT ![t].trace = Append(@, "request"),
                          ![t].auths = Append(@, IF call[t].auths = <<>>
                                                   THEN bearer_creds
                                                   ELSE call[t].auths[1])]
  /\ Transmit("request")
  /\ pc' = [pc EXCEPT ![t] = "req_wait"]
  /\ UNCHANGED <<basic_creds, pure, pingHeader, wire, pager, action, registry, pingStatus, realm,
                 service, bearer_creds, lock, wrapper, result, ncalls, issued>>

\* Lines 306-323: the headers are built from the current credential and the
\* attempt is handed to the HTTP transport.
RequestSend(t) ==
  /\ pc[t] = "send"
  /\ IF bearer_creds = NoCreds
       THEN /\ Raise(t, "AttributeError", 0, "none")
            /\ UNCHANGED call
            /\ NoTransmit
       ELSE /\ call' = [call EXCEPT ![t].trace = Append(@, "request"),
                                    ![t].auths = Append(@, bearer_creds),
                                    ![t].attempts = Append(@, Attempt(call[t]))]
            /\ Transmit("request")
            /\ pc' = [pc EXCEPT ![t] = "req_wait"]
            /\ UNCHANGED result
  /\ UNCHANGED <<basic_creds, pure, pingHeader, wire, pager, action, registry, pingStatus, realm, service, bearer_creds,
                 lock, wrapper,
                 ncalls, issued>>

\* Lines 322-335: the attempt's response arrives, with a link header out of
\* links; the loop goes on or ends. The response of an attempt that is
\* followed by a _Refresh is not read again (the retry overwrites resp and
\* content at line 322): only its status is kept, as history.
RequestRecvFrom(t, links) ==
  /\ pc[t] = "req_wait"
  /\ \E status \in Statuses, content \in Bodies, link \in links :
       LET step == AfterAttempt(status, call[t].retry) IN
       IF step = "refresh"
         THEN /\ call' = [call EXCEPT ![t].statuses = Append(@, status),
                                      ![t].trace = Append(@, "refresh")]
              /\ pc' = [pc EXCEPT ![t] = "rf_send"]
              /\ UNCHANGED result
         ELSE /\ call' = [call EXCEPT ![t].content = content,
                                      ![t].link = link,
                                      ![t].statuses = Append(@, status)]
              /\ pc' = [pc EXCEPT ![t] = "done"]
              /\ result' = [result EXCEPT ![t] = Outcome(status, content, call[t].accepted)]
  /\ UNCHANGED <<basic_creds, pure, pingHeader, wire, pager, action, registry, pingStatus, realm, service, bearer_creds,
                 lock, wrapper,
                 sent, first, ncalls, issued>>

\* A Request called directly: its response's headers are not looked at.
RequestRecv(t) == RequestRecvFrom(t, {None})
\* A Request called by PaginatedRequest.
RequestRecvPage(t) == RequestRecvFrom(t, LinkHeaders)

\* ------------------------------------------------------- PaginatedRequest
\* The threads that consume a PaginatedRequest generator.
Pagers == {1}

\* Mutant: the call of PaginatedRequest already asks for the first page.
PageCall_Eager(t) ==
  /\ pc[Ctor] = "constructed"
  /\ pc[t] = "idle"
  /\ pager[t].state = "none"
  /\ \E url \in {u \in Urls : Truthy(u)}, codes \in AcceptedSets :
       /\ pager' = [pager EXCEPT ![t] = [NoPager EXCEPT !.state = "running",
                                                        !.url = url,
                                                        !.next_page = url,
                                                        !.accepted = codes]]
       /\ call' = [call EXCEPT ![t] = StartCall(url, codes, DefaultArgs)]
  /\ pc' = [pc EXCEPT ![t] = "send"]
  /\ ncalls' = ncalls + 1
  /\ UNCHANGED <<basic_creds, pure, pingHeader, wire, action, registry, pingStatus, realm,
                 service, bearer_creds, lock, wrapper, result, sent,
                 first, issued>>

\* Lines 337-344: the call creates the generator; none of its body runs.
PageCall(t) ==
  /\ pc[Ctor] = "constructed"
  /\ pc[t] = "idle"
  /\ pager[t].state = "none"
  /\ \E url \in Urls, codes \in AcceptedSets :
       pager' = [pager EXCEPT ![t] = [NoPager EXCEPT !.state = "created",
                                                     !.url = url,
                                                     !.accepted = codes]]
  /\ UNCHANGED <<basic_creds, pure, pingHeader, wire, action, registry, pingStatus, pc, realm,
                 service, bearer_creds, lock, wrapper, call, result, sent,
                 first, ncalls, issued>>

\* Line 358 on the first next(), line 365 on the later ones: the value of
\* next_page when the loop's condition is tested.
NextPage(pg) ==
  IF pg.state = "created" THEN pg.url ELSE ParseNextLinkHeader(pg.link)

\* Mutant: the loop goes on as long as the page had a link header.
LoopGoesOn_AnyLink(pg) == pg.state = "created" \/ Truthy(pg.link)

\* Line 360: while next_page.
LoopGoesOn(pg) == Truthy(NextPage(pg))

\* The histories of a generator stop at MaxPages: the counts stay there and
\* yielded keeps the last MaxPages pages.
UpTo(n) == IF n < MaxPages THEN n + 1 ELSE n
LastPages(s) == IF Len(s) > MaxPages THEN Tail(s) ELSE s

\* The consumer asks for the next page: the generator runs from its start or
\* from its yield to the call of Request (line 361), or to its end.
PageResume(t) ==
  /\ pager[t].state \in {"created", "suspended"}
  /\ IF LoopGoesOn(pager[t])
       THEN /\ pager' = [pager EXCEPT ![t].state = "running",
                                      ![t].asked = UpTo(@),
                                      ![t].next_page = NextPage(pager[t])]
            /\ call' = [call EXCEPT ![t] = StartCall(NextPage(pager[t]), pager[t].accepted,
                                                      DefaultArgs)]
            /\ result' = [result EXCEPT ![t] = NoResult]
            /\ pc' = [pc EXCEPT ![t] = "send"]
            /\ ncalls' = UpTo(ncalls)
       ELSE /\ pager' = [pager EXCEPT ![t].state = "finished",
                                      ![t].asked = UpTo(@),
                                      ![t].next_page = NextPage(pager[t])]
            /\ UNCHANGED <<call, result, pc, ncalls>>
  /\ UNCHANGED <<basic_creds, pure, pingHeader, wire, action, registry, pingStatus, realm,
                 service, bearer_creds, lock, wrapper, sent, first, issued>>

\* A consumer that asks for MaxPages pages at most.
PageNext(t) ==
  /\ ncalls < MaxPages
  /\ PageResume(t)

\* Mutant: the generator catches the exception of a Request and goes on
\* with the page it yielded last.
PageYield_SwallowsError(t) ==
  /\ pager[t].state = "running"
  /\ pc[t] = "done"
  /\ IF result[t].kind = "return"
       THEN pager' = [pager EXCEPT
                        ![t].state = "suspended",
                        ![t].link = call[t].link,
                        ![t].yielded =
                          LastPages(Append(@, [url |-> call[t].url,
                                               status |-> result[t].status,
                                               link |-> call[t].link]))]
       ELSE pager' = [pager EXCEPT ![t].state = "suspended"]
  /\ UNCHANGED <<basic_creds, pure, pingHeader, wire, action, registry, pingStatus, pc, realm,
                 service, bearer_creds, lock, wrapper, call, result, sent,
                 first, ncalls, issued>>

\* Lines 361-363: Request has ended; its result is yielded, or its exception
\* leaves the generator.
PageYield(t) ==
  /\ pager[t].state = "running"
  /\ pc[t] = "done"
  /\ IF result[t].kind = "return"
       THEN pager' = [pager EXCEPT
                        ![t].state = "suspended",
                        ![t].link = call[t].link,
                        ![t].yielded =
                          LastPages(Append(@, [url |-> call[t].url,
                                               status |-> result[t].status,
                                               link |-> call[t].link]))]
       ELSE pager' = [pager EXCEPT ![t].state = "raised"]
  /\ UNCHANGED <<basic_creds, pure, pingHeader, wire, action, registry, pingStatus, pc, realm,
                 service, bearer_creds, lock, wrapper, call, result, sent,
                 first, ncalls, issued>>

\* --------------------------------------------------------------------- spec
Next ==
  \/ CtorStart
  \/ PingSend
  \/ PingRecv
  \/ \E p \in Procs : RefreshSend(p)
  \/ \E p \in Procs : RefreshRecv(p)
  \/ \E p \in Procs : RefreshAcquire(p)
  \/ \E p \in Procs : RefreshWrite(p)
  \/ \E p \in Procs : RefreshRelease(p)
  \/ \E t \in Threads : RequestStart(t)
  \/ \E t \in Threads : RequestSend(t)
  \/ \E t \in Threads : RequestRecv(t)

Spec == Init /\ [][Next]_vars

\* Construction alone, over every registry host and every answer to the ping.
InitPing ==
  /\ action \in ActionInputs
  /\ registry \in Registries
  /\ pingStatus = 0
  /\ pc = [p \in Procs |-> IF p = Ctor THEN "new" ELSE "idle"]
  /\ realm = NoAttr
  /\ service = NoAttr
  /\ bearer_creds = NoCreds
  /\ lock = NoLock
  /\ wrapper = [p \in Procs |-> NoWrapper]
  /\ call = [t \in Threads |-> NoCall]
  /\ result = [p \in Procs |-> NoResult]
  /\ sent = [k \in Kinds |-> 0]
  /\ first = <<>>
  /\ ncalls = 0
  /\ issued = {}
  /\ pingHeader = NoHeader
  /\ wire = {}
  /\ pager = [t \in Threads |-> NoPager]
  /\ pure = NoPure
  /\ basic_creds = BasicAuth

NextPing ==
  \/ CtorStart
  \/ PingSend
  \/ PingRecvAny
  \/ RefreshSend(Ctor)
  \/ RefreshRecv(Ctor)
  \/ RefreshAcquire(Ctor)
  \/ RefreshWrite(Ctor)
  \/ RefreshRelease(Ctor)

SpecPing == InitPing /\ [][NextPing]_vars

\* One thread consumes a PaginatedRequest of a constructed Transport. The
\* initial states are states of Spec: a pull Transport just constructed, after
\* a ping answered with ChBoth and an exchange answered with a token.
InitPages ==
  /\ action = PULL
  /\ registry = RegistryHost
  /\ pingStatus = UNAUTHORIZED
  /\ pingHeader = [has |-> TRUE, value |-> ChBoth]
  /\ pc = [p \in Procs |-> IF p = Ctor THEN "constructed" ELSE "idle"]
  /\ realm = Attr(<<"R">>)
  /\ service = Attr(<<"S">>)
  /\ \E tok \in Tokens : bearer_creds = Bearer(tok) /\ issued = {tok}
  /\ lock = NoLock
  /\ wrapper = [p \in Procs |-> NoWrapper]
  /\ call = [t \in Threads |-> NoCall]
  /\ result = [p \in Procs |-> IF p = Ctor THEN Returned(0, "none") ELSE NoResult]
  /\ sent = [ping |-> 1, exchange |-> 1, request |-> 0]
  /\ first = <<"ping", "exchange">>
  /\ ncalls = 0
  /\ wire = {PingMessage(RegistryHost),
             [kind |-> "exchange", method |-> "GET", body |-> None,
              url |-> <<"R">>, scope |-> Scope(PULL), service |-> <<"S">>,
              auth |-> BasicAuth]}
  /\ pager = [t \in Threads |-> NoPager]
  /\ pure = NoPure
  /\ basic_creds = BasicAuth

NextPages ==
  \/ \E p \in Pagers : RefreshSend(p)
  \/ \E p \in Pagers : RefreshRecv(p)
  \/ \E p \in Pagers : RefreshAcquire(p)
  \/ \E p \in Pagers : RefreshWrite(p)
  \/ \E p \in Pagers : RefreshRelease(p)
  \/ \E t \in Pagers : PageCall(t)
  \/ \E t \in Pagers : PageNext(t)
  \/ \E t \in Pagers : RequestSend(t)
  \/ \E t \in Pagers : RequestRecvPage(t)
  \/ \E t \in Pagers : PageYield(t)

SpecPages == InitPages /\ [][NextPages]_vars

\* Request calls of one thread on a constructed Transport, with every choice
\* of the optional arguments.
NextArgs ==
  \/ \E p \in Pagers : RefreshSend(p)
  \/ \E p \in Pagers : RefreshRecv(p)
  \/ \E p \in Pagers : RefreshAcquire(p)
  \/ \E p \in Pagers : RefreshWrite(p)
  \/ \E p \in Pagers : RefreshRelease(p)
  \/ \E t \in Pagers : RequestStartWith(t, AllArgs)
  \/ \E t \in Pagers : RequestSend(t)
  \/ \E t \in Pagers : RequestRecv(t)

SpecArgs == InitPages /\ [][NextArgs]_vars

\* Concurrent Request calls on a constructed Transport whose token service
\* never hands out a token twice.
NextFresh ==
  \/ \E p \in Threads : RefreshSend(p)
  \/ \E p \in Threads : RefreshRecvFresh(p)
  \/ \E p \in Threads : RefreshAcquire(p)
  \/ \E p \in Threads : RefreshWrite(p)
  \/ \E p \in Threads : RefreshRelease(p)
  \/ \E t \in Threads : RequestStart(t)
  \/ \E t \in Threads : RequestSend(t)
  \/ \E t \in Threads : RequestRecv(t)

SpecFresh == InitPages /\ [][NextFresh]_vars

\* Concurrent Request calls on a constructed Transport, each thread being
\* scheduled again and again and every call of the HTTP transport returning.
ThreadStep(t) ==
  \/ RefreshSend(t)
  \/ RefreshRecv(t)
  \/ RefreshAcquire(t)
  \/ RefreshWrite(t)
  \/ RefreshRelease(t)
  \/ RequestSend(t)
  \/ RequestRecv(t)
NextCalls ==
  \/ \E t \in Threads : RequestStart(t)
  \/ \E t \in Threads : ThreadStep(t)

SpecCallsFair ==
  /\ InitPages
  /\ [][NextCalls]_vars
  /\ \A t \in Threads : WF_vars(ThreadStep(t))

\* The caller's Basic credential changes its value (it is an object the
\* caller owns; _Refresh asks it at line 244), MaxRotations times at most.
MaxRotations == 2
Rotate ==
  /\ basic_creds.token < MaxRotations
  /\ basic_creds' = [basic_creds EXCEPT !.token = @ + 1]
  /\ UNCHANGED <<action, registry, pingStatus, pc, realm, service, bearer_creds,
                 lock, wrapper, call, result, sent, first, ncalls, issued,
                 pingHeader, wire, pager, pure>>

\* The construction and the Request calls of one thread, while the caller's
\* Basic credential rotates.
NextRotate ==
  \/ CtorStart
  \/ PingSend
  \/ PingRecv
  \/ \E p \in {Ctor} \cup Pagers : RefreshSend(p)
  \/ \E p \in {Ctor} \cup Pagers : RefreshRecv(p)
  \/ \E p \in {Ctor} \cup Pagers : RefreshAcquire(p)
  \/ \E p \in {Ctor} \cup Pagers : RefreshWrite(p)
  \/ \E p \in {Ctor} \cup Pagers : RefreshRelease(p)
  \/ \E t \in Pagers : RequestStart(t)
  \/ \E t \in Pagers : RequestSend(t)
  \/ \E t \in Pagers : RequestRecv(t)
  \/ Rotate

SpecRotate == Init /\ [][NextRotate]_vars

\* ------------------------------------------------- functions by themselves
\* The functions of the module that need no Transport, each applied once to
\* an argument out of a set.
Untouched ==
  UNCHANGED <<action, registry, pingStatus, pc, realm, service, bearer_creds,
              lock, wrapper, call, result, sent, first, ncalls, issued,
              pingHeader, wire, pager, basic_creds>>
Apply(op, res) ==
  /\ pure.op = op
  /\ ~pure.done
  /\ pure' = [pure EXCEPT !.done = TRUE, !.res = res]
  /\ Untouched

DecodeDiagnostics == Apply("_DiagnosticsFromContent", DiagnosticsFromContent(pure.arg))
RaiseDiagnostic ==
  Apply("V2DiagnosticException", V2DiagnosticException(pure.arg.resp, pure.arg.content))

ParseLink == Apply("ParseNextLinkHeader", ParseNextLinkHeader(pure.arg.link))

PureInputs ==
  {[op |-> "ParseNextLinkHeader", done |-> FALSE, arg |-> r, res |-> <<>>] :
     r \in LinkResponses}
  \cup
  {[op |-> "_DiagnosticsFromContent", done |-> FALSE, arg |-> b, res |-> <<>>] :
     b \in DiagBodies}
  \cup {[op |-> "V2DiagnosticException", done |-> FALSE,
         arg |-> [resp |-> [status |-> st], content |-> b], res |-> <<>>] :
          st \in Statuses \ {OK}, b \in DiagBodies}

InitPure ==
  /\ action = PULL
  /\ registry = RegistryHost
  /\ pingStatus = 0
  /\ pc = [p \in Procs |-> IF p = Ctor THEN "new" ELSE "idle"]
  /\ realm = NoAttr
  /\ service = NoAttr
  /\ bearer_creds = NoCreds
  /\ lock = NoLock
  /\ wrapper = [p \in Procs |-> NoWrapper]
  /\ call = [t \in Threads |-> NoCall]
  /\ result = [p \in Procs |-> NoResult]
  /\ sent = [k \in Kinds |-> 0]
  /\ first = <<>>
  /\ ncalls = 0
  /\ issued = {}
  /\ pingHeader = NoHeader
  /\ wire = {}
  /\ pager = [t \in Threads |-> NoPager]
  /\ pure \in PureInputs
  /\ basic_creds = BasicAuth

NextPure ==
  \/ ParseLink
  \/ DecodeDiagnostics
  \/ RaiseDiagnostic

SpecPure == InitPure /\ [][NextPure]_vars

\* One thread consumes a PaginatedRequest and keeps asking for the next
\* element. The Transport is one that has been in use: its counts of
\* exchanges and requests are at SentCap, and any of the tokens is current.
InitPagesFair ==
  /\ action = PULL
  /\ registry = RegistryHost
  /\ pingStatus = UNAUTHORIZED
  /\ pingHeader = [has |-> TRUE, value |-> ChBoth]
  /\ pc = [p \in Procs |-> IF p = Ctor THEN "constructed" ELSE "idle"]
  /\ realm = Attr(<<"R">>)
  /\ service = Attr(<<"S">>)
  /\ bearer_creds \in {Bearer(tok) : tok \in Tokens}
  /\ issued = Tokens
  /\ lock = NoLock
  /\ wrapper = [p \in Procs |-> NoWrapper]
  /\ call = [t \in Threads |-> NoCall]
  /\ result = [p \in Procs |-> IF p = Ctor THEN Returned(0, "none") ELSE NoResult]
  /\ sent = [ping |-> 1, exchange |-> SentCap, request |-> SentCap]
  /\ first = <<"ping", "exchange", "request">>
  /\ ncalls = 0
  /\ wire = {PingMessage(RegistryHost),
             [kind |-> "exchange", method |-> "GET", body |-> None,
              url |-> <<"R">>, scope |-> Scope(PULL), service |-> <<"S">>,
              auth |-> BasicAuth]}
  /\ pager = [t \in Threads |-> NoPager]
  /\ pure = NoPure
  /\ basic_creds = BasicAuth

NextPagesFair ==
  \/ \E p \in Pagers : RefreshSend(p)
  \/ \E p \in Pagers : RefreshRecv(p)
  \/ \E p \in Pagers : RefreshAcquire(p)
  \/ \E p \in Pagers : RefreshWrite(p)
  \/ \E p \in Pagers : RefreshRelease(p)
  \/ \E t \in Pagers : PageCall(t)
  \/ \E t \in Pagers : PageResume(t)
  \/ \E t \in Pagers : RequestSend(t)
  \/ \E t \in Pagers : RequestRecvPage(t)
  \/ \E t \in Pagers : PageYield(t)

\* The thread is the only one: whenever it has a step to take it takes one
\* (the consumer asks again, the HTTP transport answers).
SpecPagesFair ==
  InitPagesFair /\ [][NextPagesFair]_vars /\ WF_vars(NextPagesFair)

\* ------------------------------------------------------------------- claims
RECURSIVE Count(_, _)
Count(s, x) ==
  IF s = <<>> THEN 0 ELSE (IF Head(s) = x THEN 1 ELSE 0) + Count(Tail(s), x)

\* The calls of the HTTP transport a Request call has made.
HttpCalls(trace) == Count(trace, "request") + Count(trace, "exchange")

\* A credential as one successful exchange produced it.
WholeCredential(c) == c.scheme = "Bearer" /\ c.token \in issued
IsPrefix(s, r) == Len(s) <= Len(r) /\ SubSeq(r, 1, Len(s)) = s

\* The steps of a Request call that refreshed once and retried.
RefreshedOnce == <<"request", "refresh", "exchange", "request">>
Constructed == pc[Ctor] = "constructed"

\* C1: a Request whose first attempt got 401 and whose retry got an accepted
\* status has made one Refresh, with one token exchange, between its two
\* attempts, and returns the second response and its body.
C1_RefreshOnceThenReturn ==
  \A t \in Threads :
    (/\ Len(call[t].statuses) >= 2
     /\ call[t].statuses[1] = UNAUTHORIZED
     /\ call[t].statuses[2] \in call[t].accepted)
    => /\ pc[t] = "done"
       /\ call[t].trace = RefreshedOnce
       /\ result[t] = Returned(call[t].statuses[2], call[t].content)

C1_Witness ==
  \E t \in Threads :
    /\ pc[t] = "done"
    /\ call[t].statuses = <<UNAUTHORIZED, OK>>
    /\ result[t].kind = "return"
    /\ result[t].content = "body2"

\* C2: two 401 answers (401 not accepted) end the call with a
\* V2DiagnosticException after exactly two calls of the HTTP transport.
C2_TwoTransportCalls ==
  \A t \in Threads :
    (/\ Len(call[t].statuses) >= 2
     /\ call[t].statuses[1] = UNAUTHORIZED
     /\ call[t].statuses[2] = UNAUTHORIZED
     /\ UNAUTHORIZED \notin call[t].accepted)
    => /\ pc[t] = "done"
       /\ result[t].exc = "V2DiagnosticException"
       /\ HttpCalls(call[t].trace) = 2

\* C3: under every interleaving each Request call makes at most two attempts
\* and at most one Refresh; the Refresh comes only after the call's first
\* attempt got 401; a 401 on the second attempt ends the loop.
C3_AtMostTwoAttemptsOneRefresh ==
  \A t \in Threads :
    /\ Count(call[t].trace, "request") <= 2
    /\ Count(call[t].trace, "refresh") <= 1
    /\ Count(call[t].trace, "exchange") <= Count(call[t].trace, "refresh")
    /\ Count(call[t].trace, "refresh") = 1
         => /\ SubSeq(call[t].trace, 1, 2) = <<"request", "refresh">>
            /\ call[t].statuses # <<>>
            /\ call[t].statuses[1] = UNAUTHORIZED
    /\ (Len(call[t].statuses) = 2 /\ call[t].statuses[2] = UNAUTHORIZED)
         => pc[t] = "done" /\ call[t].trace = RefreshedOnce

C3_Witness ==
  \E t, u \in Threads :
    /\ t # u
    /\ pc[t] = "done"
    /\ call[t].statuses = <<UNAUTHORIZED, UNAUTHORIZED>>
    /\ pc[u] = "rf_wait"
    /\ Len(call[u].trace) = 3

\* C4: a Transport constructed for action pull, then one Request with accepted
\* codes {200} whose attempt is answered 200: the call returns that response
\* and body, and the HTTP transport was called exactly three times, in the
\* order ping, exchange, request.
C4_EndToEnd ==
  \A t \in Threads :
    (/\ action = PULL
     /\ ncalls = 1
     /\ call[t].accepted = {OK}
     /\ call[t].statuses # <<>>
     /\ call[t].statuses[1] = OK)
    => /\ pc[t] = "done"
       /\ result[t] = Returned(OK, call[t].content)
       /\ first = <<"ping", "exchange", "request">>
       /\ sent = [k \in Kinds |-> 1]

C4_Witness ==
  \E t \in Threads :
    /\ action = PULL
    /\ ncalls = 1
    /\ call[t].accepted = {OK}
    /\ call[t].statuses = <<OK>>
    /\ result[t] = Returned(OK, "body1")
    /\ pingStatus = UNAUTHORIZED

\* C5: the ping comes before the first token exchange, which comes before the
\* first request attempt; a Request call builds and sends its attempts only
\* on a Transport whose realm, service and Bearer credential are all set.
C5_PingExchangeRequest ==
  /\ IsPrefix(first, <<"ping", "exchange", "request">>)
  /\ \A t \in Threads :
       pc[t] \in {"send", "req_wait"}
         => realm.set /\ service.set /\ bearer_creds # NoCreds

C5_Witness ==
  /\ first = <<"ping", "exchange", "request">>
  /\ \E t \in Threads : pc[t] = "req_wait" /\ Len(call[t].trace) = 1

\* C6: the ping is sent once, at construction; after construction no step
\* sends a ping or changes realm or service, whatever the refreshes.
C6_PingOnce ==
  /\ [](sent["ping"] <= 1 /\ (Constructed => sent["ping"] = 1))
  /\ [][Constructed =>
          /\ realm' = realm
          /\ service' = service
          /\ sent'["ping"] = sent["ping"]]_vars

C6_Witness ==
  /\ Constructed
  /\ sent["ping"] = 1
  /\ sent["exchange"] = 3
  /\ realm.set

\* C7: once the Transport is constructed the credential slot holds a whole
\* Bearer credential whose token a successful exchange returned, and so does
\* every Authorization an attempt was built with.
C7_SlotHoldsIssuedToken ==
  /\ Constructed => WholeCredential(bearer_creds)
  /\ \A t \in Threads :
       \A i \in DOMAIN call[t].auths : WholeCredential(call[t].auths[i])

C7_Witness ==
  \E t, u \in Threads :
    /\ pc[t] = "rf_write"
    /\ pc[u] = "rf_lock"
    /\ wrapper[t].token # wrapper[u].token
    /\ bearer_creds.token # wrapper[t].token

\* C8: the lock is not held while a call of the HTTP transport is in flight:
\* it is held only from its acquisition after the exchange was checked to the
\* release that follows the store.
C8_NoLockAcrossNetwork ==
  \A p \in Procs :
    /\ pc[p] \in {"ping_wait", "rf_wait", "req_wait"} => lock # p
    /\ lock = p <=> pc[p] \in {"rf_write", "rf_unlock"}

C8_Witness ==
  \E t, u \in Threads :
    /\ lock = t
    /\ pc[t] = "rf_write"
    /\ pc[u] = "rf_wait"

\* C9: an action outside pull / push,pull / catalog makes __init__ raise
\* BadStateException before anything is sent: the Transport is never pinged
\* or constructed with it.
C9_InvalidActionFails ==
  action \notin {"pull", "push,pull", "catalog"}
    => /\ pc[Ctor] \in {"new", "failed"}
       /\ pc[Ctor] = "failed" => result[Ctor].exc = "BadStateException"
       /\ sent["ping"] = 0
       /\ ~realm.set /\ bearer_creds = NoCreds

C9_Witness ==
  /\ action = "delete"
  /\ pc[Ctor] = "failed"
  /\ result[Ctor].exc = "BadStateException"

\* C10: a ping answered with a status other than 401 makes __init__ raise
\* BadStateException.
C10_PingStatusNot401Fails ==
  (pingStatus # 0 /\ pingStatus # 401)
    => /\ pc[Ctor] = "failed"
       /\ result[Ctor].exc = "BadStateException"
       /\ sent["exchange"] = 0

C10_Witness ==
  /\ pingStatus = 404
  /\ pc[Ctor] = "failed"
  /\ result[Ctor] = Raised("BadStateException", 404, "none")

\* The comma-separated tokens of a Bearer challenge (line 215), and whether
\* one of them starts with pfx.
ChallengeTokens(ch) == Split(Drop(ch, Len(CHALLENGE)), ",")
HasToken(ch, pfx) ==
  \E i \in DOMAIN ChallengeTokens(ch) : StartsWith(ChallengeTokens(ch)[i], pfx)

\* C11: when the ping is answered 401 with a challenge that starts with
\* 'Bearer ' but has no realm= token, construction fails with
\* BadStateException.
C11_NoRealmBadState ==
  (/\ pingStatus = UNAUTHORIZED
   /\ pingHeader.has
   /\ StartsWith(pingHeader.value, CHALLENGE)
   /\ ~HasToken(pingHeader.value, REALM_PFX))
    => /\ pc[Ctor] = "failed"
       /\ result[Ctor].exc = "BadStateException"

\* C12: when the ping is answered 401 and the response has no
\* www-authenticate header, or one that does not start with 'Bearer ',
\* construction fails with BadStateException.
C12_NoBearerChallengeBadState ==
  (/\ pingStatus = UNAUTHORIZED
   /\ (~pingHeader.has \/ ~StartsWith(pingHeader.value, CHALLENGE)))
    => /\ pc[Ctor] = "failed"
       /\ result[Ctor].exc = "BadStateException"

\* The challenges of the form Bearer realm="R",service="S", in both orders
\* and with extra whitespace around the attributes.
WellFormedChallenges ==
  {ChBoth, ChSwapped, ChSpace, ChSwappedSpace, ChSpaceBefore, ChTwoSpaces}

\* C13: for every challenge of the form Bearer realm="R",service="S", in
\* either order and with whatever whitespace around the attributes, _Ping
\* sets realm to exactly R and service to exactly S, quotes stripped.
C13_RealmAndServiceExtracted ==
  (/\ pingStatus = UNAUTHORIZED
   /\ pingHeader.has
   /\ pingHeader.value \in WellFormedChallenges)
    => /\ realm = Attr(<<"R">>)
       /\ service = Attr(<<"S">>)

\* C14: when the challenge has a realm= token and no service= token, every
\* token exchange is made for the service that is the registry host the
\* ping's URL was built with.
C14_ServiceDefaultsToRegistry ==
  (/\ pingHeader.has
   /\ StartsWith(pingHeader.value, CHALLENGE)
   /\ HasToken(pingHeader.value, REALM_PFX)
   /\ ~HasToken(pingHeader.value, SERVICE_PFX))
    => \A m \in wire :
         m.kind = "exchange"
           => \E q \in wire : q.kind = "ping" /\ q.url = PingUrl(m.service)

C14_Witness ==
  /\ pingHeader = [has |-> TRUE, value |-> ChNoService]
  /\ sent["exchange"] = 3
  /\ \E m \in wire : m.kind = "exchange" /\ m.service = RegistryHost

\* Process p's _Refresh stores the credential in this step (line 267).
Stores(p) == pc[p] = "rf_write" /\ pc'[p] = "rf_unlock"
\* Thread t builds the headers of an attempt in this step (lines 306-309).
Builds(t) == Len(call'[t].auths) = Len(call[t].auths) + 1

\* C15: a _Refresh whose exchange is answered 200 with a token T stores a
\* Bearer credential with value T; the credential changes in no other way;
\* and an attempt built afterwards carries the credential stored last.
C15_RefreshInstallsToken ==
  /\ [][\A p \in Procs :
          Stores(p) => /\ wrapper[p].token \in issued
                       /\ bearer_creds' = [scheme |-> "Bearer", token |-> wrapper[p].token]]_vars
  /\ [][bearer_creds' # bearer_creds => \E p \in Procs : Stores(p)]_vars
  /\ [][\A t \in Threads :
          Builds(t) => call'[t].auths[Len(call'[t].auths)] = bearer_creds]_vars

C15_Witness ==
  \E t \in Threads :
    /\ call[t].trace = <<"request", "refresh", "exchange", "request">>
    /\ call[t].auths = <<Bearer(1), Bearer(2)>>
    /\ bearer_creds = Bearer(2)

\* The token exchange of process p's _Refresh failed: __init__ failed after
\* the exchange was sent, or a Request call ended in its exchange.
ExchangeFailed(p) ==
  IF p = Ctor
    THEN pc[Ctor] = "failed" /\ sent["exchange"] >= 1
    ELSE /\ pc[p] = "done"
         /\ call[p].trace # <<>>
         /\ call[p].trace[Len(call[p].trace)] = "exchange"

\* C16: every failed token exchange (a status other than 200, a 200 body
\* without a token field, a 200 body that is not a JSON object) makes
\* _Refresh fail with BadStateException.
C16_FailedExchangeBadState ==
  \A p \in Procs : ExchangeFailed(p) => result[p].exc = "BadStateException"

\* The status of the last attempt of thread t's call.
FinalStatus(t) == call[t].statuses[Len(call[t].statuses)]

\* C17: a Request call that has ended has failed with
\* V2DiagnosticException exactly when the status of its final attempt is not
\* in the accepted codes, and has otherwise returned that attempt's response
\* and body.
C17_DiagnosticIffNotAccepted ==
  \A t \in Threads :
    (pc[t] = "done" /\ call[t].statuses # <<>>)
      => IF FinalStatus(t) \in call[t].accepted
           THEN result[t] = Returned(FinalStatus(t), call[t].content)
           ELSE result[t] = Raised("V2DiagnosticException", FinalStatus(t), call[t].content)

\* C18: a Request call whose first attempt is answered with a status other
\* than 401, accepted or not, ends there: one call of the HTTP transport, no
\* _Refresh; and a step of a thread changes the credential only in a call
\* whose first attempt was answered 401.
C18_OnlyA401IsRetried ==
  /\ [](\A t \in Threads :
          (Len(call[t].statuses) >= 1 /\ call[t].statuses[1] # 401)
            => /\ pc[t] = "done"
               /\ call[t].trace = <<"request">>
               /\ Len(call[t].statuses) = 1)
  /\ [][\A t \in Threads :
          (pc'[t] # pc[t] /\ bearer_creds' # bearer_creds)
            => call[t].statuses = <<401>>]_vars

C18_Witness ==
  \E t \in Threads :
    /\ call[t].statuses = <<404>>
    /\ call[t].trace = <<"request">>
    /\ call[t].auths = <<bearer_creds>>
    /\ result[t] = Raised("V2DiagnosticException", 404, "body1")
    /\ sent = [ping |-> 1, exchange |-> 1, request |-> 1]

\* C19: every attempt of a Request carries the Bearer credential that is
\* current when its headers are built; the ping carries no Authorization,
\* and the Basic credential is sent only in token exchanges, to the realm.
C19_BearerOnAttemptsBasicOnExchange ==
  /\ [](\A m \in wire :
          /\ m.kind = "ping" => m.auth = NoAuth
          /\ m.auth.scheme = "Basic" => (m.kind = "exchange" /\ m.url = realm.v)
          /\ m.kind = "exchange" => m.auth = BasicAuth)
  /\ [](\A t \in Threads : \A i \in DOMAIN call[t].auths :
          call[t].auths[i].scheme = "Bearer")
  /\ [][\A t \in Threads :
          (pc[t] = "send" /\ pc'[t] = "req_wait")
            => /\ Len(call'[t].auths) = Len(call[t].auths) + 1
               /\ call'[t].auths[Len(call'[t].auths)] = bearer_creds]_vars

C19_Witness ==
  /\ \E m \in wire : m.kind = "exchange" /\ m.auth = BasicAuth
  /\ \E m \in wire : m.kind = "ping" /\ m.auth = NoAuth
  /\ \E t \in Threads :
       /\ pc[t] = "req_wait"
       /\ call[t].auths = <<Bearer(2), Bearer(1)>>
       /\ bearer_creds = Bearer(1)

\* The URL PaginatedRequest asks for after the pages y, given the URL url:
\* url first, then the rel="next" link of the last page.
Following(url, y) ==
  IF y = <<>> THEN url ELSE ParseNextLinkHeader(y[Len(y)].link)

\* C20: PaginatedRequest asks for the given URL first and then for the URL
\* of the rel="next" link of the page it yielded last; every Request it
\* makes yields its result once; it makes no Request after a page without a
\* next link, and ends only after such a page.
C20_PagesFollowNextLinks ==
  \A t \in Pagers :
    LET pg == pager[t]
        y == pg.yielded
    IN /\ \A i \in DOMAIN y :
            /\ Truthy(y[i].url)
            /\ y[i].url = Following(pg.url, SubSeq(y, 1, i - 1))
       /\ pg.state = "running" => /\ Truthy(call[t].url)
                                  /\ call[t].url = Following(pg.url, y)
       /\ pg.state = "finished" => ~Truthy(Following(pg.url, y))
       /\ pg.state # "none"
            => ncalls = Len(y) + (IF pg.state \in {"running", "raised"} THEN 1 ELSE 0)

C20_Witness ==
  \E t \in Pagers :
    /\ pager[t].state = "finished"
    /\ pager[t].url = Str(UrlA)
    /\ Len(pager[t].yielded) = 2
    /\ pager[t].yielded[1].url = Str(UrlA)
    /\ pager[t].yielded[1].link = Str(LkNextB)
    /\ pager[t].yielded[2].url = Str(UrlB)
    /\ pager[t].yielded[2].link = Str(LkPrevA)
    /\ sent["request"] = 2

\* C21: PaginatedRequest is lazy: before the consumer asks for the first
\* element nothing is sent; a Request for a page is begun only by the
\* consumer asking for the next element, after the Request for the page
\* before has ended; and while the consumer holds a page no Request is under
\* way.
C21_LazyNoPrefetch ==
  /\ [](\A t \in Pagers :
          /\ pager[t].state = "created"
               => (sent["request"] = 0 /\ ncalls = 0 /\ call[t] = NoCall)
          /\ ncalls <= pager[t].asked
          /\ pager[t].state # "running" => pc[t] \in {"idle", "done"})
  /\ [][\A t \in Pagers :
          ncalls' = ncalls + 1
            => /\ pc[t] \in {"idle", "done"}
               /\ pager'[t].asked = pager[t].asked + 1]_vars

C21_Witness ==
  \E t \in Pagers :
    /\ pager[t].state = "suspended"
    /\ Len(pager[t].yielded) = 2
    /\ pager[t].asked = 2
    /\ ncalls = 2
    /\ Truthy(ParseNextLinkHeader(pager[t].link))
    /\ pc[t] = "done"

\* C22 (as stated): a page that has just been yielded was produced by exactly
\* one call of the HTTP transport.
C22_OneHttpCallPerPage ==
  \A t \in Pagers :
    pager[t].state = "suspended" => HttpCalls(call[t].trace) = 1

\* C22 (amended): a page that has just been yielded was produced by one
\* Request: one call of the HTTP transport when its first attempt was not
\* answered 401, and three (attempt, token exchange, retry) when it was.
C22_OneRequestPerPage ==
  \A t \in Pagers :
    pager[t].state = "suspended"
      => /\ Len(pager[t].yielded) = ncalls
         /\ IF call[t].statuses[1] # 401
              THEN call[t].trace = <<"request">>
              ELSE call[t].trace = <<"request", "refresh", "exchange", "request">>

C22_Witness ==
  \E t \in Pagers :
    /\ pager[t].state = "suspended"
    /\ Len(pager[t].yielded) = 1
    /\ call[t].statuses = <<401, 200>>
    /\ HttpCalls(call[t].trace) = 3
    /\ sent = [ping |-> 1, exchange |-> 2, request |-> 2]

\* C23: the sequence of a PaginatedRequest is finite: a consumer that keeps
\* asking for the next element reaches the end of the sequence (the
\* generator finishes, or the exception of a Request ends it).
C23_SequenceEnds ==
  \A t \in Pagers : <>(pager[t].state \in {"finished", "raised"})

\* A body that is no structured error JSON: it is not JSON, its JSON is not
\* an object, or the object's errors are not an array.
Undecodable(b) ==
  \/ b.json.t # "dict"
  \/ /\ "errors" \in DOMAIN b.json.d
     /\ b.json.d["errors"].t # "list"
Decoded == pure.op = "_DiagnosticsFromContent" /\ pure.done

\* C24: when the body cannot be parsed as structured error JSON (it is not
\* JSON, not a JSON object, or its errors are not an array), the decoder
\* returns exactly one Diagnostic, with code UNKNOWN, the raw body as message
\* and no detail.
C24_UnparseableGivesUnknown ==
  (Decoded /\ Undecodable(pure.arg))
    => /\ Len(pure.res) = 1
       /\ Readable(pure.res[1])
       /\ DOMAIN pure.res[1].error.d = {"code", "message"}
       /\ pure.res[1].error.d["code"] = JStr(<<"U", "N", "K", "N", "O", "W", "N">>)
       /\ pure.res[1].error.d["message"] = JStr(pure.arg.raw)

\* A body that is a JSON object whose errors are a list of objects.
ErrorsArray(b) ==
  /\ b.json.t = "dict"
  /\ "errors" \in DOMAIN b.json.d
  /\ b.json.d["errors"].t = "list"
  /\ \A i \in DOMAIN b.json.d["errors"].items : b.json.d["errors"].items[i].t = "dict"
FieldOf(e, k) == IF k \in DOMAIN e.d THEN e.d[k] ELSE [t |-> "null"]

\* C25: for a body that is JSON with an errors array, the decoder yields one
\* Diagnostic per element, in the order of the array, whose code, message and
\* detail are the element's; a field the element does not have reads as None.
C25_OneDiagnosticPerError ==
  (Decoded /\ ErrorsArray(pure.arg))
    => LET items == pure.arg.json.d["errors"].items IN
       /\ Len(pure.res) = Len(items)
       /\ \A i \in DOMAIN items :
            /\ Readable(pure.res[i])
            /\ Code(pure.res[i]) = FieldOf(items[i], "code")
            /\ Message(pure.res[i]) = FieldOf(items[i], "message")
            /\ Detail(pure.res[i]) = FieldOf(items[i], "detail")

C25_Witness ==
  /\ Decoded
  /\ ErrorsArray(pure.arg)
  /\ Len(pure.res) = 2
  /\ Code(pure.res[1]) = JStr(<<"X">>)
  /\ Message(pure.res[1]) = JNull
  /\ Code(pure.res[2]) = JNull
  /\ Message(pure.res[2]) = JStr(<<"m">>)

\* C26: whatever the body of a response whose status is not accepted, the
\* exception that 'raise V2DiagnosticException(resp, content)' gives the
\* caller of Request is a V2DiagnosticException.
C26_AlwaysDiagnosticError ==
  (pure.op = "V2DiagnosticException" /\ pure.done)
    => pure.res.exc = "V2DiagnosticException"

\* C27: the ping of the constructor is a GET without body to
\* {scheme}://{registry}/v2/, the scheme being http exactly when the registry
\* host starts with 'localhost:' and https for every other host.
C27_PingIsGetToSchemeUrl ==
  \A m \in wire :
    m.kind = "ping"
      => /\ m.method = "GET"
         /\ m.body = None
         /\ \E scheme \in {<<"h", "t", "t", "p">>, <<"h", "t", "t", "p", "s">>} :
              /\ m.url = scheme \o <<":", "/", "/">> \o registry \o <<"/", "v", "2", "/">>
              /\ scheme = <<"h", "t", "t", "p">>
                   <=> /\ Len(registry) >= 10
                       /\ SubSeq(registry, 1, 10) = <<"l", "o", "c", "a", "l", "h", "o", "s", "t", ":">>

C27_Witness ==
  /\ registry = <<"l", "o", "c", "a", "l", "h", "o", "s", "t", ":", "5", "0", "0", "0">>
  /\ sent["ping"] = 1
  /\ \E m \in wire :
       /\ m.kind = "ping"
       /\ m.method = "GET"
       /\ m.url = <<"h", "t", "t", "p", ":", "/", "/", "l", "o", "c", "a", "l", "h", "o", "s", "t", ":", "5", "0", "0", "0", "/", "v", "2", "/">>

\* C28: ParseNextLinkHeader returns the URL of the entry <U>; rel="next" of
\* the link header, also when entries of another relation stand before or
\* after it, and None when the header is missing, empty, or has no entry
\* whose relation is next.
C28_NextLinkParsed ==
  (pure.op = "ParseNextLinkHeader" /\ pure.done)
    => LET es == pure.arg.entries
           nexts == {i \in DOMAIN es : es[i].rel = <<"n", "e", "x", "t">>}
       IN IF pure.arg.link.none \/ nexts = {}
            THEN pure.res.none
            ELSE /\ ~pure.res.none
                 /\ \E i \in nexts : pure.res.v = es[i].url

\* An argument that is given and not empty ('if body', 'if not method').
Present(x) == ~x.none /\ Len(x.v) > 0

\* C29: on every attempt of a Request the method is the given one, or GET
\* without a body and PUT with one; content-type is set exactly when there is
\* a body (to the given content type, application/json by default); and
\* content-length: 0 is set exactly when the method is POST or PUT and there
\* is no body.
C29_MethodAndHeaders ==
  \A t \in Threads : \A i \in DOMAIN call[t].attempts :
    LET a == call[t].attempts[i]
        args == call[t].args
    IN /\ a.method = IF Present(args.method) THEN args.method.v
                     ELSE IF Present(args.body) THEN <<"P", "U", "T">>
                     ELSE <<"G", "E", "T">>
       /\ a.body = args.body
       /\ ~a.headers.content_type.none <=> Present(args.body)
       /\ Present(args.body)
            => a.headers.content_type.v =
                 IF Present(args.content_type) THEN args.content_type.v
                 ELSE <<"a", "p", "p", "l", "i", "c", "a", "t", "i", "o", "n", "/", "j", "s", "o", "n">>
       /\ ~a.headers.content_length.none
            <=> (a.method \in {<<"P", "O", "S", "T">>, <<"P", "U", "T">>} /\ ~Present(args.body))
       /\ ~a.headers.content_length.none => a.headers.content_length.v = <<"0">>

C29_Witness ==
  \E t \in Threads :
    /\ Len(call[t].attempts) = 2
    /\ call[t].statuses = <<401, 200>>
    /\ call[t].args.method = None
    /\ call[t].args.body = Str(<<"d">>)
    /\ call[t].args.content_type = None
    /\ call[t].attempts[2].method = <<"P", "U", "T">>
    /\ call[t].attempts[2].headers.content_type = Str(<<"a", "p", "p", "l", "i", "c", "a", "t", "i", "o", "n", "/", "j", "s", "o", "n">>)
    /\ call[t].attempts[2].headers.content_length = None

\* C30: a Request call whose first attempt got 401 and whose _Refresh then
\* failed has itself failed with BadStateException, and has made no second
\* attempt.
C30_FailedRefreshFailsRequest ==
  \A t \in Threads :
    (/\ pc[t] = "done"
     /\ call[t].statuses = <<UNAUTHORIZED>>
     /\ call[t].trace = <<"request", "refresh", "exchange">>)
      => /\ result[t].kind = "raise"
         /\ result[t].exc = "BadStateException"
         /\ Len(call[t].attempts) = 1

\* C31: a constructed Transport stays authenticated: it always holds a Bearer
\* credential, its realm and service never change, a response to an attempt
\* (a 401 included) changes no credential, a _Refresh that fails leaves the
\* credential as it was, and every attempt sent carries the credential that
\* is current when it is sent.
C31_StaysAuthenticated ==
  /\ [](Constructed => (bearer_creds # NoCreds /\ realm.set /\ service.set))
  /\ [][Constructed =>
          /\ pc'[Ctor] = "constructed"
          /\ realm' = realm
          /\ service' = service
          /\ \A t \in Threads :
               /\ (pc[t] = "req_wait" /\ pc'[t] # pc[t]) => bearer_creds' = bearer_creds
               /\ (pc[t] \in {"rf_send", "rf_wait"} /\ pc'[t] = "done")
                    => bearer_creds' = bearer_creds
               /\ Len(call'[t].attempts) > Len(call[t].attempts)
                    => call'[t].attempts[Len(call'[t].attempts)].headers.Authorization
                         = bearer_creds]_vars

\* A call failed in its _Refresh, and the other thread's call then went
\* through on the token of the construction, the only one ever issued.
C31_Witness ==
  \E t, u \in Threads :
    /\ t # u
    /\ pc[t] = "done"
    /\ call[t].trace = <<"request", "refresh", "exchange">>
    /\ result[t].exc = "BadStateException"
    /\ pc[u] = "done"
    /\ call[u].statuses = <<OK>>
    /\ Cardinality(issued) = 1
    /\ \E k \in issued : /\ bearer_creds = Bearer(k)
                         /\ call[u].attempts[1].headers.Authorization = Bearer(k)

\* C32 (as stated): the retry of a call whose first attempt got 401 carries
\* the token that the call's own _Refresh obtained.
C32_RetryCarriesOwnToken ==
  \A t \in Threads :
    Len(call[t].auths) = 2 => call[t].auths[2] = Bearer(call[t].obtained)

\* C32 (amended): when the _Refresh of a call returns, the Transport holds
\* the token that _Refresh obtained; until the call sends its retry only the
\* _Refresh of another call changes the credential, to the token that one
\* obtained; and the retry carries the credential that is current when it is
\* sent.
C32_RetryCarriesCurrentToken ==
  /\ [](\A t \in Threads : pc[t] = "rf_unlock" => bearer_creds = Bearer(wrapper[t].token))
  /\ [][\A t \in Threads :
          /\ (pc[t] = "rf_unlock" /\ pc'[t] = "send")
               => /\ call'[t].obtained = wrapper[t].token
                  /\ bearer_creds' = Bearer(call'[t].obtained)
          /\ (pc[t] = "send" /\ ~call[t].retry /\ bearer_creds' # bearer_creds)
               => \E u \in Threads \ {t} :
                    /\ pc[u] = "rf_write"
                    /\ pc'[u] = "rf_unlock"
                    /\ bearer_creds' = Bearer(wrapper[u].token)
          /\ (Len(call[t].auths) = 1 /\ Len(call'[t].auths) = 2)
               => /\ call[t].statuses = <<UNAUTHORIZED>>
                  /\ call'[t].auths[2] = bearer_creds]_vars

\* The retry of one call carries the token of the other call's _Refresh.
C32_Witness ==
  \E t, u \in Threads :
    /\ t # u
    /\ Len(call[t].auths) = 2
    /\ call[t].obtained # 0
    /\ call[u].obtained # 0
    /\ call[t].obtained # call[u].obtained
    /\ call[t].auths[2] = Bearer(call[u].obtained)

\* C33: every token exchange, that of the construction and that of each
\* _Refresh after a 401, is a GET without body to the realm, with the scope
\* of the name and action and the service, and carries as Authorization the
\* value the Basic credential has when the exchange is sent.
C33_ExchangeMessage ==
  [][sent'["exchange"] # sent["exchange"] =>
       LET m == [kind |-> "exchange", method |-> "GET", body |-> None,
                 url |-> realm.v, scope |-> action, service |-> service.v,
                 auth |-> basic_creds]
       IN /\ realm.set /\ service.set
          /\ m \in wire'
          /\ wire' \ wire \subseteq {m}
          /\ \E p \in Procs : pc[p] = "rf_send" /\ pc'[p] = "rf_wait"]_vars

\* The exchange of the construction and the exchange of a later _Refresh
\* carry different values of the Basic credential.
C33_Witness ==
  /\ sent["exchange"] = 2
  /\ \E t \in Threads : call[t].trace = <<"request", "refresh", "exchange">>
  /\ \E m, n \in wire :
       /\ m.kind = "exchange" /\ m.auth.token = 0
       /\ n.kind = "exchange" /\ n.auth.token = 1
       /\ basic_creds = n.auth

\* C34: when no exchange returns a token twice, the retry of a call never
\* carries the token its first attempt carried, under any interleaving of the
\* calls: from the return of the call's _Refresh to its retry the Transport
\* holds a token other than that one.
C34_RetryTokenDiffers ==
  \A t \in Threads :
    /\ (pc[t] = "send" /\ ~call[t].retry) => bearer_creds # call[t].auths[1]
    /\ Len(call[t].auths) = 2
         => /\ call[t].auths[2] # call[t].auths[1]
            /\ call[t].auths[2].scheme = "Bearer"

\* Both threads got 401 on the token of the construction; the retry of one
\* carries the other's token.
C34_Witness ==
  \E t, u \in Threads :
    /\ t # u
    /\ Len(call[t].auths) = 2
    /\ Len(call[u].auths) >= 1
    /\ call[u].auths[1] = call[t].auths[1]
    /\ call[u].obtained # 0
    /\ call[t].auths[2] = Bearer(call[u].obtained)

\* Thread t's call got 401 on its first attempt and its _Refresh has sent off
\* its exchange.
Refreshing(t) ==
  /\ Len(call[t].statuses) >= 1
  /\ call[t].statuses[1] = UNAUTHORIZED
  /\ pc[t] # "rf_send"

\* C35: refreshes are not coalesced. Every call that got 401 on its first
\* attempt makes one token exchange of its own, so two concurrent calls that
\* both got 401 make two (three with the one of the construction); the
\* credential changes only when the _Refresh that holds the lock stores its
\* token, so the token left current is the one of the _Refresh that took the
\* lock last.
C35_RefreshesNotCoalesced ==
  /\ [](\A t \in Threads : Refreshing(t) => Count(call[t].trace, "exchange") = 1)
  /\ []((ncalls = 2 /\ \A t \in Threads : Refreshing(t)) => sent["exchange"] = 3)
  /\ [](\A t, u \in Threads :
          (/\ t # u
           /\ call[t].obtained # 0 /\ pc[t] \in {"send", "req_wait", "done"}
           /\ call[u].obtained # 0 /\ pc[u] \in {"send", "req_wait", "done"})
            => bearer_creds \in {Bearer(call[t].obtained), Bearer(call[u].obtained)})
  /\ [][bearer_creds' # bearer_creds
          => \E p \in Procs : /\ lock = p
                              /\ pc[p] = "rf_write"
                              /\ bearer_creds' = Bearer(wrapper[p].token)]_vars

\* Two concurrent calls, 401 each, three exchanges in all; the two _Refresh
\* obtained different tokens, the second thread's took the lock last and its
\* token is current.
C35_Witness ==
  /\ ncalls = 2
  /\ sent["exchange"] = 3
  /\ \A t \in Threads : /\ Refreshing(t)
                        /\ call[t].obtained # 0
                        /\ Len(call[t].auths) = 2
  /\ call[1].obtained # call[2].obtained
  /\ bearer_creds = Bearer(call[2].obtained)
  /\ call[1].auths[2] = Bearer(call[2].obtained)
  /\ call[2].auths[2] = Bearer(call[2].obtained)

\* C36: when every call of the HTTP transport returns and the threads are
\* scheduled fairly, every Request call that has started returns or raises,
\* whatever the other calls do: the lock is held only while a _Refresh stores
\* its token, never by a call that has ended or that waits for the network.
C36_EveryCallEnds ==
  /\ [](\A p \in Procs : lock = p => pc[p] \in {"rf_write", "rf_unlock"})
  /\ \A t \in Threads :
       (pc[t] \notin {"idle", "done"})
         ~> (pc[t] = "done" /\ result[t].kind \in {"return", "raise"} /\ lock # t)

\* One call failed in its _Refresh, the other refreshed and retried; both
\* have ended and the lock is free.
C36_Witness ==
  \E t, u \in Threads :
    /\ t # u
    /\ pc[t] = "done"
    /\ result[t].kind = "raise"
    /\ call[t].trace = <<"request", "refresh", "exchange">>
    /\ pc[u] = "done"
    /\ call[u].trace = <<"request", "refresh", "exchange", "request">>
    /\ lock = NoLock

\* The ping has been answered and has failed: a status other than 401, no
\* challenge, a challenge that is not a Bearer one, or one without a realm.
PingFailed ==
  /\ pingStatus # 0
  /\ \/ pingStatus # UNAUTHORIZED
     \/ ~pingHeader.has
     \/ ~StartsWith(pingHeader.value, CHALLENGE)
     \/ ~HasToken(pingHeader.value, REALM_PFX)
     \/ pingHeader.value = ChEmptyRealm

\* C37: construction stops at its first failing step. With an action that
\* is not one of ACTIONS no call of the HTTP transport is ever made; when the
\* ping fails the ping is the only call made, construction has failed and no
\* token exchange is ever sent; and an exchange is only ever sent after a
\* ping that did not fail.
C37_ConstructionStopsAtFirstFailure ==
  /\ (action \notin {"pull", "push,pull", "catalog"})
       => /\ sent = [ping |-> 0, exchange |-> 0, request |-> 0]
          /\ wire = {}
          /\ pc[Ctor] \in {"new", "failed"}
  /\ PingFailed
       => /\ sent = [ping |-> 1, exchange |-> 0, request |-> 0]
          /\ pc[Ctor] = "failed"
          /\ result[Ctor].kind = "raise"
          /\ \A m \in wire : m.kind = "ping"
  /\ sent["exchange"] > 0 => (sent["ping"] = 1 /\ pingStatus = UNAUTHORIZED /\ ~PingFailed)

\* The ping was answered 401 with a Basic challenge: one call, no exchange.
C37_Witness ==
  /\ pc[Ctor] = "failed"
  /\ pingStatus = UNAUTHORIZED
  /\ pingHeader.has
  /\ pingHeader.value = ChBasic
  /\ sent = [ping |-> 1, exchange |-> 0, request |-> 0]

\* C38: a Request that accepts 401 and gets 401 on both attempts has made
\* one _Refresh (one exchange) between its two attempts and returns the
\* second response and its body; it does not raise.
C38_Accepted401Returned ==
  \A t \in Threads :
    (/\ UNAUTHORIZED \in call[t].accepted
     /\ Len(call[t].statuses) >= 1
     /\ call[t].statuses[1] = UNAUTHORIZED)
      => /\ Count(call[t].trace, "refresh") = 1
         /\ IsPrefix(call[t].trace, <<"request", "refresh", "exchange", "request">>)
         /\ (Len(call[t].statuses) >= 2 /\ call[t].statuses[2] = UNAUTHORIZED)
              => /\ pc[t] = "done"
                 /\ call[t].statuses = <<UNAUTHORIZED, UNAUTHORIZED>>
                 /\ call[t].trace = <<"request", "refresh", "exchange", "request">>
                 /\ Len(call[t].attempts) = 2
                 /\ result[t] = [kind |-> "return", exc |-> "none",
                                 status |-> UNAUTHORIZED, content |-> call[t].content]

C38_Witness ==
  \E t \in Threads :
    /\ call[t].accepted = {OK, UNAUTHORIZED}
    /\ call[t].statuses = <<UNAUTHORIZED, UNAUTHORIZED>>
    /\ call[t].trace = <<"request", "refresh", "exchange", "request">>
    /\ result[t].kind = "return"
    /\ result[t].status = UNAUTHORIZED
    /\ result[t].content = "body2"

\* C39: when the Request for a page raises (the V2DiagnosticException of a
\* status that is not accepted, or the exception of a failed _Refresh), the
\* exception leaves the generator at the element the consumer asked for: the
\* pages before it have been yielded, each by a Request that returned, and
\* once the exception has left the generator nothing more is requested.
C39_PageErrorEndsSequence ==
  /\ [](\A t \in Pagers :
          /\ result[t].kind = "raise" => pager[t].state \in {"running", "raised"}
          /\ pager[t].state = "raised"
               => /\ pc[t] = "done"
                  /\ result[t].kind = "raise"
                  /\ result[t].exc # "none"
                  /\ call[t].url = Following(pager[t].url, pager[t].yielded)
                  /\ Len(pager[t].yielded) = ncalls - 1
                  /\ pager[t].asked = ncalls
                  /\ \A i \in DOMAIN pager[t].yielded :
                       pager[t].yielded[i].status \in pager[t].accepted)
  /\ [][\A t \in Pagers :
          pager[t].state = "raised"
            => /\ pager'[t] = pager[t]
               /\ ncalls' = ncalls
               /\ sent' = sent
               /\ call'[t] = call[t]]_vars

C39_Witness ==
  \E t \in Pagers :
    /\ pager[t].state = "raised"
    /\ Len(pager[t].yielded) = 1
    /\ pager[t].yielded[1].link = Str(LkNextB)
    /\ call[t].url = Str(UrlB)
    /\ call[t].statuses = <<401>>
    /\ result[t].kind = "raise"
    /\ result[t].exc = "BadStateException"
    /\ ncalls = 2
    /\ sent["request"] = 2

\* A body that is a JSON object without an errors key.
NoErrorsKey(b) == b.json.t = "dict" /\ "errors" \notin DOMAIN b.json.d

\* C40: for a body that is a JSON object without an errors key the decoder
\* returns the empty list, not the UNKNOWN diagnostic, and the
\* V2DiagnosticException raised for such a body keeps no diagnostic and has
\* a message of one line, the line of the response.
C40_NoErrorsKeyNoDiagnostics ==
  /\ (Decoded /\ NoErrorsKey(pure.arg)) => pure.res = <<>>
  /\ (pure.op = "V2DiagnosticException" /\ pure.done /\ NoErrorsKey(pure.arg.content))
       => /\ pure.res.exc = "V2DiagnosticException"
          /\ pure.res.diagnostics = <<>>
          /\ Len(pure.res.message) = 1
          /\ pure.res.message[1].line = "response"
          /\ pure.res.message[1].status = pure.arg.resp.status

C40_Witness ==
  /\ pure.op = "V2DiagnosticException"
  /\ pure.done
  /\ pure.arg.content.json = JDict(<<"message">>, [message |-> JStr(<<"m">>)])
  /\ pure.arg.resp.status = 404
  /\ pure.res.diagnostics = <<>>
  /\ Len(pure.res.message) = 1

====
